---- MODULE Spec2Model ----
(***************************************************************************)
(* Model of mcp-council: the JSON-RPC stdio server (mcp.rs) and the two    *)
(* stage tools council.peer_review and council.finalize                    *)
(* (tools/peer_review.rs, tools/finalize.rs).                              *)
(*                                                                         *)
(* Strings on which the code computes (file names, engines, model names,   *)
(* error messages) are sequences of one-character strings, so that         *)
(* contains / starts_with / ends_with / replace / trim are computed as the *)
(* code computes them.                                                     *)
(***************************************************************************)
EXTENDS Integers, Sequences, FiniteSets, TLC

\* ---------------------------------------------------------------------
\* Bounds of the model (not program constants)
\* ---------------------------------------------------------------------
MaxLines == 2
MaxAnswers == 28
MaxDepth == 6
MaxEngineLen == 3

\* ---------------------------------------------------------------------
\* String literals of the source
\* ---------------------------------------------------------------------
\* tools/peer_review.rs: file-name patterns, the default engine, the label
\* prefix, the messages of the errors, the query files
PR ==
    [dash_answer_md |-> <<"-","a","n","s","w","e","r",".","m","d">>,
     answer_md |-> <<"a","n","s","w","e","r",".","m","d">>,
     dash_answer_json |-> <<"-","a","n","s","w","e","r",".","j","s","o","n">>,
     answer_json |-> <<"a","n","s","w","e","r",".","j","s","o","n">>,
     dash_answer |-> <<"-","a","n","s","w","e","r">>,
     peer_review_dash |-> <<"p","e","e","r","-","r","e","v","i","e","w","-">>,
     peer_review_by |-> <<"p","e","e","r","-","r","e","v","i","e","w","-","b","y","-">>,
     peer_review_md |-> <<"p","e","e","r","-","r","e","v","i","e","w",".","m","d">>,
     md |-> <<".","m","d">>,
     claude |-> <<"c","l","a","u","d","e">>,
     Response |-> <<"R","e","s","p","o","n","s","e"," ">>,
     missing_title |-> <<"M","i","s","s","i","n","g"," ","r","e","q","u","i","r","e","d"," ","p","a","r","a","m","e","t","e","r",":"," ","t","i","t","l","e">>,
     dir_not_found |-> <<"D","i","r","e","c","t","o","r","y"," ","n","o","t"," ","f","o","u","n","d",":"," ">>,
     no_stage1 |-> <<"N","o"," ","S","t","a","g","e","1"," ","a","n","s","w","e","r"," ","f","i","l","e","s"," ","f","o","u","n","d"," ","i","n"," ">>,
     parse_answer |-> <<"F","a","i","l","e","d"," ","t","o"," ","p","a","r","s","e"," ","a","n","s","w","e","r"," ","f","i","l","e",":"," ">>,
     no_answers_left |-> <<"N","o"," ","S","t","a","g","e","1"," ","a","n","s","w","e","r","s"," ","a","v","a","i","l","a","b","l","e"," ","a","f","t","e","r"," ","a","p","p","l","y","i","n","g"," ","s","e","l","f","_","m","o","d","e","l"," ","e","x","c","l","u","s","i","o","n">>,
     llm_peer_review |-> <<"F","a","i","l","e","d"," ","t","o"," ","r","u","n"," ","L","L","M"," ","C","L","I"," ","f","o","r"," ","p","e","e","r"," ","r","e","v","i","e","w">>,
     write_review |-> <<"F","a","i","l","e","d"," ","t","o"," ","w","r","i","t","e"," ","r","e","v","i","e","w"," ","m","a","r","k","d","o","w","n"," ","f","i","l","e",":"," ">>,
     invalid_utf8 |-> <<"s","t","r","e","a","m"," ","d","i","d"," ","n","o","t"," ","c","o","n","t","a","i","n"," ","v","a","l","i","d"," ","U","T","F","-","8">>,
     query_txt |-> <<"q","u","e","r","y",".","t","x","t">>,
     user_query_txt |-> <<"u","s","e","r","_","q","u","e","r","y",".","t","x","t">>,
     question_txt |-> <<"q","u","e","s","t","i","o","n",".","t","x","t">>,
     input_txt |-> <<"i","n","p","u","t",".","t","x","t">>,
     Unknown_query |-> <<"U","n","k","n","o","w","n"," ","q","u","e","r","y">>,
     ellipsis |-> <<".",".",".">>]

\* tools/finalize.rs: what it has on top of the literals of peer_review.rs
\* (the Stage1 patterns, the first four messages and the query files are the same)
FIN ==
    [peer_review |-> <<"p","e","e","r","-","r","e","v","i","e","w">>,
     final_answer_by |-> <<"f","i","n","a","l","-","a","n","s","w","e","r","-","b","y","-">>,
     parse_review |-> <<"F","a","i","l","e","d"," ","t","o"," ","p","a","r","s","e"," ","r","e","v","i","e","w"," ","f","i","l","e",":"," ">>,
     no_stage2 |-> <<"N","o"," ","S","t","a","g","e","2"," ","r","e","v","i","e","w"," ","f","i","l","e","s"," ","f","o","u","n","d","."," ","P","l","e","a","s","e"," ","r","u","n"," ","p","e","e","r","_","r","e","v","i","e","w"," ","f","i","r","s","t",".">>,
     llm_finalize |-> <<"F","a","i","l","e","d"," ","t","o"," ","r","u","n"," ","L","L","M"," ","C","L","I"," ","f","o","r"," ","f","i","n","a","l","i","z","a","t","i","o","n">>,
     write_final |-> <<"F","a","i","l","e","d"," ","t","o"," ","w","r","i","t","e"," ","f","i","n","a","l"," ","m","a","r","k","d","o","w","n"," ","f","i","l","e",":"," ">>]

\* mcp.rs: the protocol version, the methods, the tool names and the messages
MCP ==
    [jsonrpc |-> <<"2",".","0">>,
     initialize |-> <<"i","n","i","t","i","a","l","i","z","e">>,
     tools_list |-> <<"t","o","o","l","s","/","l","i","s","t">>,
     tools_call |-> <<"t","o","o","l","s","/","c","a","l","l">>,
     peer_review |-> <<"c","o","u","n","c","i","l",".","p","e","e","r","_","r","e","v","i","e","w">>,
     finalize |-> <<"c","o","u","n","c","i","l",".","f","i","n","a","l","i","z","e">>,
     peer_review_failed |-> <<"P","e","e","r"," ","r","e","v","i","e","w"," ","f","a","i","l","e","d",":"," ">>,
     finalize_failed |-> <<"F","i","n","a","l","i","z","e"," ","f","a","i","l","e","d",":"," ">>,
     unknown_tool |-> <<"U","n","k","n","o","w","n"," ","t","o","o","l",":"," ">>,
     method_not_found |-> <<"M","e","t","h","o","d"," ","n","o","t"," ","f","o","u","n","d",":"," ">>]

\* The texts the model feeds the program: titles, file names, engines, the
\* word looked for in an error message, an unknown method and tool, file
\* contents, the collaborator's outputs.  long: 301 bytes in 299 characters,
\* bytes 200 and 300 inside a character
Given ==
    [capital |-> <<"c","a","p","i","t","a","l">>,
     nope |-> <<"n","o","p","e">>,
     claude_answer_md |-> <<"c","l","a","u","d","e","-","a","n","s","w","e","r",".","m","d">>,
     gpt_answer_json |-> <<"g","p","t","-","a","n","s","w","e","r",".","j","s","o","n">>,
     bad_answer_md |-> <<"b","a","d","-","a","n","s","w","e","r",".","m","d">>,
     peer_review_gemini_md |-> <<"p","e","e","r","-","r","e","v","i","e","w","-","g","e","m","i","n","i",".","m","d">>,
     gemini |-> <<"g","e","m","i","n","i">>,
     Stage2 |-> <<"S","t","a","g","e","2">>,
     ping |-> <<"p","i","n","g">>,
     other |-> <<"c","o","u","n","c","i","l",".","o","t","h","e","r">>,
     Paris |-> <<"P","a","r","i","s">>,
     gpt |-> <<"g","p","t">>,
     GPT |-> <<"G","P","T">>,
     query |-> <<" "," ","c","a","p","i","t","a","l"," ","o","f"," ","F","r","a","n","c","e","?"," ">>,
     old |-> <<"o","l","d">>,
     ok |-> <<"o","k">>,
     long |-> [i \in 1..299 |-> IF i \in {200, 299} THEN "e-acute" ELSE "a"]]

\* ---------------------------------------------------------------------
\* Option<&str> and string primitives of the Rust standard library
\* ---------------------------------------------------------------------
None == [some |-> FALSE, v |-> <<>>]
Some(x) == [some |-> TRUE, v |-> x]

StartsWith(s, p) == Len(s) >= Len(p) /\ SubSeq(s, 1, Len(p)) = p
EndsWith(s, p) == Len(s) >= Len(p) /\ SubSeq(s, Len(s) - Len(p) + 1, Len(s)) = p
Contains(s, p) == \E i \in 0..(Len(s) - Len(p)) : SubSeq(s, i + 1, i + Len(p)) = p

RECURSIVE TrimStartMatches(_, _)
TrimStartMatches(s, p) ==
    IF Len(p) > 0 /\ StartsWith(s, p)
    THEN TrimStartMatches(SubSeq(s, Len(p) + 1, Len(s)), p)
    ELSE s

RECURSIVE TrimEndMatches(_, _)
TrimEndMatches(s, p) ==
    IF Len(p) > 0 /\ EndsWith(s, p)
    THEN TrimEndMatches(SubSeq(s, 1, Len(s) - Len(p)), p)
    ELSE s

\* str::replace: every non-overlapping match, scanning from the left
RECURSIVE Replace(_, _, _)
Replace(s, from, to) ==
    IF s = <<>> THEN <<>>
    ELSE IF Len(from) > 0 /\ StartsWith(s, from)
         THEN to \o Replace(SubSeq(s, Len(from) + 1, Len(s)), from, to)
         ELSE <<Head(s)>> \o Replace(Tail(s), from, to)

Whitespace == {" ", "\t", "\n", "\r"}

RECURSIVE TrimStart(_)
TrimStart(s) == IF s # <<>> /\ Head(s) \in Whitespace THEN TrimStart(Tail(s)) ELSE s

RECURSIVE TrimEnd(_)
TrimEnd(s) ==
    IF s # <<>> /\ s[Len(s)] \in Whitespace THEN TrimEnd(SubSeq(s, 1, Len(s) - 1)) ELSE s

Trim(s) == TrimEnd(TrimStart(s))

UpperLetters == <<"A","B","C","D","E","F","G","H","I","J","K","L","M","N","O","P","Q","R","S","T","U","V","W","X","Y","Z">>
LowerLetters == <<"a","b","c","d","e","f","g","h","i","j","k","l","m","n","o","p","q","r","s","t","u","v","w","x","y","z">>
Digits == {"0","1","2","3","4","5","6","7","8","9"}

ToAsciiLowercase(c) ==
    IF \E i \in 1..26 : UpperLetters[i] = c
    THEN LowerLetters[CHOOSE i \in 1..26 : UpperLetters[i] = c]
    ELSE c

EqIgnoreAsciiCase(a, b) ==
    /\ Len(a) = Len(b)
    /\ \A i \in 1..Len(a) : ToAsciiLowercase(a[i]) = ToAsciiLowercase(b[i])

IsAsciiAlphanumeric(c) ==
    \/ \E i \in 1..26 : UpperLetters[i] = c \/ LowerLetters[i] = c
    \/ c \in Digits

\* Path::file_stem: the file name up to its last '.', the whole name when
\* it has no '.' or only a leading one
LastDot(n) == IF \E i \in 1..Len(n) : n[i] = "."
              THEN CHOOSE i \in 1..Len(n) : n[i] = "." /\ \A j \in (i + 1)..Len(n) : n[j] # "."
              ELSE 0
FileStem(n) == IF LastDot(n) <= 1 THEN n ELSE SubSeq(n, 1, LastDot(n) - 1)

\* ---------------------------------------------------------------------
\* serde_json::Value, and the texts held in files and returned by calls
\* ---------------------------------------------------------------------
\* A JSON value is [t |-> "str", s |-> chars], [t |-> "obj", f |-> fields],
\* [t |-> "num"], [t |-> "null"], [t |-> "bool"], [t |-> "arr"];
\* JMissing stands for the None of Value::get and the Null of Value's Index.
JStr(s) == [t |-> "str", s |-> s]
JObj(f) == [t |-> "obj", f |-> f]
JNum(n) == [t |-> "num", n |-> n]
JNull == [t |-> "null"]
JBool == [t |-> "bool"]
JArr == [t |-> "arr"]
JMissing == [t |-> "missing"]
NoFields == [k \in {} |-> JNull]

JGet(j, key) == IF j.t = "obj" /\ key \in DOMAIN j.f THEN j.f[key] ELSE JMissing
AsStr(j) == IF j.t = "str" THEN Some(j.s) ELSE None

\* A text (Rust String) is [k |-> "plain", s |-> chars], the text of a JSON
\* document [k |-> "json", j |-> value], or a markdown document built by
\* build_review_markdown / build_final_markdown.
Plain(s) == [k |-> "plain", s |-> s]
JsonText(j) == [k |-> "json", j |-> j]

\* serde_json::from_str::<Value>: succeeds exactly on the text of a JSON document
ParseJson(text) == IF text.k = "json" THEN [ok |-> TRUE, j |-> text.j]
                   ELSE [ok |-> FALSE, j |-> JNull]

\* str::trim on a text
TrimText(text) == IF text.k = "plain" THEN Plain(Trim(text.s)) ELSE text

\* A file is [readable, text]; fs::read_to_string fails on a file that is
\* not readable as UTF-8 text.
File(text) == [readable |-> TRUE, text |-> text]
Unreadable == [readable |-> FALSE, text |-> Plain(<<>>)]

\* format_response_content on a JSON value
FormatResponseContent(content) ==
    IF AsStr(JGet(content, "response")).some THEN Plain(AsStr(JGet(content, "response")).v)
    ELSE IF AsStr(JGet(content, "content")).some THEN Plain(AsStr(JGet(content, "content")).v)
    ELSE IF AsStr(content).some THEN Plain(AsStr(content).v)
    ELSE JsonText(content)

\* read_stage1_answer on a readable file: the Stage1Answer {model, response, raw}
ReadStage1Answer(name, file) ==
    LET model_from_name == Replace(FileStem(name), PR.dash_answer, <<>>)
        parsed == ParseJson(file.text)
    IN  IF parsed.ok
        THEN [model |-> IF AsStr(JGet(parsed.j, "model")).some
                        THEN AsStr(JGet(parsed.j, "model")).v
                        ELSE model_from_name,
              response |-> FormatResponseContent(parsed.j),
              raw |-> file.text]
        ELSE [model |-> model_from_name, response |-> file.text, raw |-> file.text]

\* read_stage2_review on a readable file: the Stage2Review {engine, review, raw}
ReadStage2Review(name, file) ==
    LET engine_from_name == Replace(FileStem(name), PR.peer_review_by, <<>>)
        parsed == ParseJson(file.text)
    IN  IF parsed.ok
        THEN [engine |-> IF AsStr(JGet(parsed.j, "engine")).some
                         THEN AsStr(JGet(parsed.j, "engine")).v
                         ELSE engine_from_name,
              review |-> IF AsStr(JGet(parsed.j, "review")).some
                         THEN Plain(AsStr(JGet(parsed.j, "review")).v)
                         ELSE FormatResponseContent(parsed.j),
              raw |-> file.text]
        ELSE [engine |-> engine_from_name, review |-> file.text, raw |-> file.text]

\* The file-name filters of the two tools
IsStage1Name(n) ==
    \/ Contains(n, PR.dash_answer_md) \/ EndsWith(n, PR.answer_md)
    \/ Contains(n, PR.dash_answer_json) \/ EndsWith(n, PR.answer_json)
IsStage1JsonName(n) == Contains(n, PR.dash_answer_json) \/ EndsWith(n, PR.answer_json)
IsStage2Name(n) == Contains(n, FIN.peer_review)

Stage1Names(dir) == {n \in DOMAIN dir : IsStage1Name(n)}
Stage1JsonNames(dir) == {n \in DOMAIN dir : IsStage1JsonName(n)}
Stage2Names(dir) == {n \in DOMAIN dir : IsStage2Name(n)}

\* fs::read_dir yields the entries in a platform-dependent order: every
\* enumeration of a set of names is possible
Enumerations(names) ==
    {q \in [1..Cardinality(names) -> names] : \A i, j \in 1..Cardinality(names) : i # j => q[i] # q[j]}

\* ---------------------------------------------------------------------
\* handle_peer_review: engine normalisation and labels
\* ---------------------------------------------------------------------
\* engine_raw -> engine: trimmed, "claude" when that is empty
EngineOf(engine_raw) == IF Trim(engine_raw) = <<>> THEN PR.claude ELSE Trim(engine_raw)

Sanitize(engine) ==
    [i \in 1..Len(engine) |->
        IF IsAsciiAlphanumeric(engine[i]) \/ engine[i] = "-" \/ engine[i] = "_"
        THEN engine[i] ELSE "-"]

\* engine_for_file: the sanitized engine itself (not the trimmed copy),
\* "claude" when the sanitized engine consists of '-' only
\* (EngineForFile_Trimmed: the variant that uses the trimmed copy)
EngineForFile_Trimmed(engine) ==
    LET sanitized == Sanitize(engine)
        cleaned == TrimEndMatches(TrimStartMatches(sanitized, <<"-">>), <<"-">>)
    IN  IF cleaned = <<>> THEN PR.claude ELSE cleaned
EngineForFile(engine) ==
    LET sanitized == Sanitize(engine)
        cleaned == TrimEndMatches(TrimStartMatches(sanitized, <<"-">>), <<"-">>)
    IN  IF cleaned = <<>> THEN PR.claude ELSE sanitized

ReviewFileName(engine_for_file) == PR.peer_review_by \o engine_for_file \o PR.md
FinalFileName(engine) == FIN.final_answer_by \o engine \o PR.md

\* char::from(b'A' + idx as u8): the characters with codes 65..126
AsciiFrom65 == UpperLetters \o <<"[", "\\", "]", "^", "_", "backtick">> \o LowerLetters \o <<"{", "|", "}", "~">>
CharFromU8(code) == IF code \in 65..126 THEN AsciiFrom65[code - 64] ELSE "?"
\* idx as u8 truncates; the u8 addition wraps in a release build (it panics
\* in a debug build, from the 192nd answer on)
LabelOf(idx) == PR.Response \o <<CharFromU8((65 + (idx % 256)) % 256)>>

\* the exclusion test of the loading loop
IsSelf(answer, self_model) == self_model.some /\ EqIgnoreAsciiCase(answer.model, self_model.v)

RECURSIVE Survivors(_, _)
Survivors(loaded, self_model) ==
    IF loaded = <<>> THEN <<>>
    ELSE IF IsSelf(Head(loaded).content, self_model)
         THEN Survivors(Tail(loaded), self_model)
         ELSE <<Head(loaded)>> \o Survivors(Tail(loaded), self_model)

\* the re-labelling loop: answers[idx]["label"] = "Response <letter>"
Relabel(answers) ==
    [i \in 1..Len(answers) |->
        [file |-> answers[i].file, content |-> answers[i].content, label |-> LabelOf(i - 1)]]

\* ---------------------------------------------------------------------
\* extract_user_query (the same function in both tools)
\* ---------------------------------------------------------------------
PossibleFiles == <<PR.query_txt, PR.user_query_txt, PR.question_txt, PR.input_txt>>

\* first_json: the first entry of the enumeration of the Stage1 JSON files
ExtractUserQuery(dir, first_json) ==
    LET present == {i \in 1..Len(PossibleFiles) : PossibleFiles[i] \in DOMAIN dir}
        first == CHOOSE i \in present : \A j \in present : i <= j
        Unknown == [ok |-> TRUE, text |-> Plain(PR.Unknown_query), err |-> <<>>]
        IoError == [ok |-> FALSE, text |-> Plain(<<>>), err |-> PR.invalid_utf8]
    IN  IF present # {}
        THEN IF dir[PossibleFiles[first]].readable
             THEN [ok |-> TRUE, text |-> TrimText(dir[PossibleFiles[first]].text), err |-> <<>>]
             ELSE IoError
        ELSE IF Stage1JsonNames(dir) = {} THEN Unknown
        ELSE IF ~dir[first_json].readable THEN IoError
        ELSE LET parsed == ParseJson(dir[first_json].text)
                 query == IF ~parsed.ok THEN JMissing
                          ELSE IF JGet(parsed.j, "query") # JMissing THEN JGet(parsed.j, "query")
                          ELSE JGet(parsed.j, "user_query")
             IN  IF AsStr(query).some
                 THEN [ok |-> TRUE, text |-> Plain(AsStr(query).v), err |-> <<>>]
                 ELSE Unknown

\* ---------------------------------------------------------------------
\* preview_text: byte length, byte slice
\* ---------------------------------------------------------------------
\* characters are one byte long in UTF-8, except those of TwoByteChars
TwoByteChars == {"e-acute"}
WideAt(s) == {i \in 1..Len(s) : s[i] \in TwoByteChars}
\* text.len(): the length in bytes
ByteLen(s) == Len(s) + Cardinality(WideAt(s))

\* &text[..max_len] panics when max_len is not on a character boundary
PreviewText(text, max_len) ==
    LET wide == WideAt(text.s)
        \* the length in bytes of the first n characters
        BytesOf(n) == n + Cardinality({i \in wide : i <= n})
        \* a boundary at byte max_len follows at least max_len \div 2 characters
        boundary == {n \in (max_len \div 2)..Len(text.s) : BytesOf(n) = max_len}
    IN  IF ByteLen(text.s) <= max_len
        THEN [panic |-> FALSE, text |-> text]
        ELSE IF boundary # {}
        THEN [panic |-> FALSE,
              text |-> Plain(SubSeq(text.s, 1, CHOOSE n \in boundary : TRUE) \o PR.ellipsis)]
        ELSE [panic |-> TRUE, text |-> Plain(<<>>)]

\* ---------------------------------------------------------------------
\* The documents the tools build
\* ---------------------------------------------------------------------
\* (BuildReviewMarkdown_NoCount: the variant that leaves the answer count at 0)
BuildReviewMarkdown_NoCount(title, engine, user_query, answer_count, review_output) ==
    [k |-> "review_md", title |-> title, engine |-> engine, answers |-> 0,
     query |-> user_query, review |-> review_output]
BuildReviewMarkdown(title, engine, user_query, answer_count, review_output) ==
    [k |-> "review_md", title |-> title, engine |-> engine, answers |-> answer_count,
     query |-> user_query, review |-> review_output]

BuildFinalMarkdown(title, engine, user_query, stage1_count, stage2_count, final_output) ==
    [k |-> "final_md", title |-> title, engine |-> engine, stage1 |-> stage1_count,
     stage2 |-> stage2_count, query |-> user_query, final |-> final_output]

RankingPrompt(user_query, answers) ==
    [k |-> "ranking_prompt", query |-> user_query,
     responses |-> [i \in 1..Len(answers) |->
                      [label |-> answers[i].label, text |-> answers[i].content.response]]]

ChairmanPrompt(user_query, stage1_results, stage2_results) ==
    [k |-> "chairman_prompt", query |-> user_query,
     stage1_text |-> [i \in 1..Len(stage1_results) |->
                   [model |-> stage1_results[i].model, response |-> stage1_results[i].response]],
     stage2_text |-> [i \in 1..Len(stage2_results) |->
                   [model |-> stage2_results[i].engine, ranking |-> stage2_results[i].review]]]

\* ---------------------------------------------------------------------
\* The workspace directory and the legacy migration of handle_peer_review
\* ---------------------------------------------------------------------
\* A directory is a function from the names of its files to the files.
\* what a tool call returns: the Result (ok / err, the top-level message of
\* the anyhow error), whether it panicked, the workspaces it leaves,
\* whether it invoked the collaborator, and the payload of Ok.
NoPayload == [k |-> "none"]
Outcome(ok, panic, err, w, called, prompt, payload) ==
    [ok |-> ok, panic |-> panic, err |-> err, ws |-> w, called |-> called,
     prompt |-> prompt, payload |-> payload]
NoPrompt == [k |-> "none"]

\* fs::write(path, text): the file is created or truncated, then filled
\* (WriteFile_NoOverwrite: the variant that writes beside a file that exists)
WriteFile_NoOverwrite(dir, name, text) ==
    [n \in DOMAIN dir \cup {IF name \in DOMAIN dir THEN name \o <<"2">> ELSE name} |->
        IF n \in DOMAIN dir THEN dir[n] ELSE File(text)]
WriteFile(dir, name, text) ==
    [n \in DOMAIN dir \cup {name} |-> IF n = name THEN File(text) ELSE dir[n]]

\* how the final fs::write of a tool ends: "ok"; "fail": the file could not
\* be created, nothing changes; "partial": the file was created or truncated
\* and the content could not be written, the file is left empty
WriteOutcomes == {"ok", "fail", "partial"}
TryWriteFile(dir, name, text, how) ==
    IF how = "ok" THEN WriteFile(dir, name, text)
    ELSE IF how = "partial" THEN WriteFile(dir, name, Plain(<<>>))
    ELSE dir

\* fs::rename(from, to).or_else(|_| write(to, read_to_string(from)?)).ok()
\* how = "rename": the rename succeeds; "copy": it fails and the fallback
\* succeeds; "fail": both fail (ignored).
RenameOrCopy(dir, from, to, how) ==
    IF how = "rename"
    THEN [n \in (DOMAIN dir \ {from}) \cup {to} |-> IF n = to THEN dir[from] ELSE dir[n]]
    ELSE IF how = "copy" /\ dir[from].readable
    THEN WriteFile(dir, to, dir[from].text)
    ELSE dir

\* peer-review.md moves to the review file of the call, if that does not exist
\* (MigrateBare_Overwrite: the variant that does not look whether it exists)
MigrateBare_Overwrite(dir, review_name, how) ==
    IF PR.peer_review_md \in DOMAIN dir
    THEN RenameOrCopy(dir, PR.peer_review_md, review_name, how)
    ELSE dir
MigrateBare(dir, review_name, how) ==
    IF PR.peer_review_md \in DOMAIN dir /\ review_name \notin DOMAIN dir
    THEN RenameOrCopy(dir, PR.peer_review_md, review_name, how)
    ELSE dir

IsLegacyName(n) ==
    StartsWith(n, PR.peer_review_dash) /\ EndsWith(n, PR.md) /\ ~Contains(n, PR.peer_review_by)
EnginePart(n) == TrimEndMatches(TrimStartMatches(n, PR.peer_review_dash), PR.md)

\* the loop over read_dir: one entry after the other
RECURSIVE MigrateLegacy(_, _, _)
MigrateLegacy(dir, entries, how) ==
    IF entries = {} THEN dir
    ELSE LET n == CHOOSE e \in entries : TRUE
             new_name == ReviewFileName(EnginePart(n))
             next == IF /\ n \in DOMAIN dir
                        /\ IsLegacyName(n)
                        /\ EnginePart(n) # <<>>
                        /\ new_name \notin DOMAIN dir
                     THEN RenameOrCopy(dir, n, new_name, how)
                     ELSE dir
         IN  MigrateLegacy(next, entries \ {n}, how)

Migrate(dir, review_name, how) ==
    LET bare == MigrateBare(dir, review_name, how)
    IN  MigrateLegacy(bare, DOMAIN bare, how)

\* the workspaces when run_llm has failed: the ? returns before the
\* migration and the write
\* (AfterLlmFailure_MigratedFirst: the variant that migrates before it calls
\* the collaborator)
AfterLlmFailure_MigratedFirst(w, title, review_name, how) ==
    [w EXCEPT ![title] = Migrate(w[title], review_name, how)]
AfterLlmFailure(w, title, review_name, how) == w

\* base_dir.exists(): the directory .council/<title> exists
\* (BaseDirExists_Unchecked: the variant in which the check is left out)
BaseDirExists_Unchecked(w, title) == TRUE
BaseDirExists(w, title) == title \in DOMAIN w

\* ---------------------------------------------------------------------
\* handle_peer_review
\* ---------------------------------------------------------------------
\* env: what the environment decides during the call
\*   order      enumeration of the Stage1 answer files (read_dir)
\*   first_json first Stage1 JSON file of extract_user_query's read_dir
\*   llm        [ok, text]: the collaborator's result
\*   rename     "rename" | "copy" | "fail" (see RenameOrCopy)
\*   write      "ok" | "fail" | "partial" (see TryWriteFile)
HandlePeerReview(params, w, env) ==
    LET title == AsStr(JGet(params, "title"))
        engine_raw == IF AsStr(JGet(params, "engine")).some
                      THEN AsStr(JGet(params, "engine")).v ELSE PR.claude
        engine == EngineOf(engine_raw)
        engine_for_file == EngineForFile(engine)
        self_model == AsStr(JGet(params, "self_model"))
        Err(msg, called, w2) == Outcome(FALSE, FALSE, msg, w2, called, NoPrompt, NoPayload)
    IN  IF ~title.some THEN Err(PR.missing_title, FALSE, w)
        ELSE IF ~BaseDirExists(w, title.v) THEN Err(PR.dir_not_found \o title.v, FALSE, w)
        ELSE
        LET dir == w[title.v]
            answer_files == env.order
        IN  IF answer_files = <<>> THEN Err(PR.no_stage1 \o title.v, FALSE, w)
            ELSE IF \E i \in 1..Len(answer_files) : ~dir[answer_files[i]].readable
            THEN Err(PR.parse_answer \o
                     answer_files[CHOOSE i \in 1..Len(answer_files) :
                                    /\ ~dir[answer_files[i]].readable
                                    /\ \A j \in 1..(i - 1) : dir[answer_files[j]].readable],
                     FALSE, w)
            ELSE
            LET loaded == [i \in 1..Len(answer_files) |->
                             [file |-> answer_files[i],
                              content |-> ReadStage1Answer(answer_files[i], dir[answer_files[i]])]]
                answers == Relabel(Survivors(loaded, self_model))
                user_query == ExtractUserQuery(dir, env.first_json)
            IN  IF answers = <<>> THEN Err(PR.no_answers_left, FALSE, w)
                ELSE IF ~user_query.ok THEN Err(user_query.err, FALSE, w)
                ELSE IF ~env.llm.ok
                THEN Outcome(FALSE, FALSE, PR.llm_peer_review,
                             AfterLlmFailure(w, title.v, ReviewFileName(engine_for_file), env.rename),
                             TRUE, RankingPrompt(user_query.text, answers), NoPayload)
                ELSE
                LET review_output == env.llm.text
                    markdown == BuildReviewMarkdown(title.v, engine, user_query.text,
                                                    Len(answers), review_output)
                    review_name == ReviewFileName(engine_for_file)
                    migrated == Migrate(dir, review_name, env.rename)
                    w_written == [w EXCEPT ![title.v] =
                                    TryWriteFile(migrated, review_name, markdown, env.write)]
                    preview == PreviewText(review_output, 200)
                    prompt == RankingPrompt(user_query.text, answers)
                IN  IF env.write # "ok"
                    THEN Outcome(FALSE, FALSE, PR.write_review \o review_name, w_written,
                                 TRUE, prompt, NoPayload)
                    ELSE IF preview.panic
                    THEN Outcome(FALSE, TRUE, <<>>, w_written, TRUE, prompt, NoPayload)
                    ELSE Outcome(TRUE, FALSE, <<>>, w_written, TRUE, prompt,
                                 [k |-> "peer_review", success |-> TRUE,
                                  file |-> review_name,
                                  count |-> Len(answers), engine |-> engine,
                                  preview |-> preview.text, markdown |-> markdown])

\* ---------------------------------------------------------------------
\* handle_finalize
\* ---------------------------------------------------------------------
\* the ordering check: no Stage2 review was loaded
\* (NoStage2_Unchecked: the variant in which the check is left out)
NoStage2_Unchecked(stage2_results) == FALSE
NoStage2(stage2_results) == stage2_results = <<>>

\* env.reviews: enumeration of the Stage2 review files (read_dir)
HandleFinalize(params, w, env) ==
    LET title == AsStr(JGet(params, "title"))
        engine == IF AsStr(JGet(params, "engine")).some
                  THEN AsStr(JGet(params, "engine")).v ELSE PR.claude
        Err(msg, called, prompt) == Outcome(FALSE, FALSE, msg, w, called, prompt, NoPayload)
        FirstUnreadable(dir, files) ==
            files[CHOOSE i \in 1..Len(files) :
                    /\ ~dir[files[i]].readable
                    /\ \A j \in 1..(i - 1) : dir[files[j]].readable]
    IN  IF ~title.some THEN Err(PR.missing_title, FALSE, NoPrompt)
        ELSE IF ~BaseDirExists(w, title.v) THEN Err(PR.dir_not_found \o title.v, FALSE, NoPrompt)
        ELSE
        LET dir == w[title.v]
            answer_files == env.order
            review_files == env.reviews
        IN  IF answer_files = <<>> THEN Err(PR.no_stage1 \o title.v, FALSE, NoPrompt)
            ELSE IF \E i \in 1..Len(answer_files) : ~dir[answer_files[i]].readable
            THEN Err(PR.parse_answer \o FirstUnreadable(dir, answer_files), FALSE, NoPrompt)
            ELSE IF \E i \in 1..Len(review_files) : ~dir[review_files[i]].readable
            THEN Err(FIN.parse_review \o FirstUnreadable(dir, review_files), FALSE, NoPrompt)
            ELSE
            LET stage1_results == [i \in 1..Len(answer_files) |->
                                     ReadStage1Answer(answer_files[i], dir[answer_files[i]])]
                stage2_results == [i \in 1..Len(review_files) |->
                                     ReadStage2Review(review_files[i], dir[review_files[i]])]
                user_query == ExtractUserQuery(dir, env.first_json)
            IN  IF NoStage2(stage2_results) THEN Err(FIN.no_stage2, FALSE, NoPrompt)
                ELSE IF ~user_query.ok THEN Err(user_query.err, FALSE, NoPrompt)
                ELSE
                LET prompt == ChairmanPrompt(user_query.text, stage1_results, stage2_results)
                    final_output == env.llm.text
                    markdown == BuildFinalMarkdown(title.v, engine, user_query.text,
                                                   Len(stage1_results), Len(stage2_results),
                                                   final_output)
                    final_name == FinalFileName(engine)
                    w_written == [w EXCEPT ![title.v] =
                                    TryWriteFile(dir, final_name, markdown, env.write)]
                    preview == PreviewText(final_output, 300)
                IN  IF ~env.llm.ok THEN Err(FIN.llm_finalize, TRUE, prompt)
                    ELSE IF env.write # "ok"
                    THEN Outcome(FALSE, FALSE, FIN.write_final \o final_name, w_written,
                                 TRUE, prompt, NoPayload)
                    ELSE IF preview.panic
                    THEN Outcome(FALSE, TRUE, <<>>, w_written, TRUE, prompt, NoPayload)
                    ELSE Outcome(TRUE, FALSE, <<>>, w_written, TRUE, prompt,
                                 [k |-> "finalize", success |-> TRUE,
                                  file |-> final_name,
                                  stage1 |-> Len(stage1_results),
                                  stage2 |-> Len(stage2_results), engine |-> engine,
                                  preview |-> preview.text, markdown |-> markdown])

\* ---------------------------------------------------------------------
\* mcp.rs: McpRequest, McpResponse, McpError and handle_request
\* ---------------------------------------------------------------------
\* An input line is a text: empty once trimmed (a blank line), not JSON
\* (plain), or the text of a JSON document.

\* serde_json::from_str::<McpRequest>: jsonrpc and method must be strings;
\* id and params are Option<Value>, None when absent or null
ParseRequest(line) ==
    IF /\ line.k = "json"
       /\ line.j.t = "obj"
       /\ AsStr(JGet(line.j, "jsonrpc")).some
       /\ AsStr(JGet(line.j, "method")).some
    THEN [ok |-> TRUE,
          id |-> IF JGet(line.j, "id") = JNull THEN JMissing ELSE JGet(line.j, "id"),
          method |-> AsStr(JGet(line.j, "method")).v,
          params |-> IF JGet(line.j, "params") = JNull THEN JMissing ELSE JGet(line.j, "params")]
    ELSE [ok |-> FALSE, id |-> JMissing, method |-> <<>>, params |-> JMissing]

\* a request is a notification unless its id is a bare string or number
\* (IsNotification_NoBool: the variant that takes a boolean id for a request id)
IsNotification_NoBool(id) == id.t \in {"missing", "null", "arr", "obj"}
IsNotification(id) == id.t \in {"missing", "null", "bool", "arr", "obj"}

NoError == [k |-> "none"]
McpError(code, message) == [k |-> "error", code |-> code, message |-> message, data |-> NoPayload]
McpResponse(id, result, error) == [jsonrpc |-> MCP.jsonrpc, id |-> id, result |-> result, error |-> error]
ErrorResponse(id, code, message) == McpResponse(id, NoPayload, McpError(code, message))

\* the response to a failure of a tool handler, on a true request
\* (ToolFailure_PerCause: the variant with a code of its own for a missing parameter)
ToolFailure_PerCause(response_id, prefix, e) ==
    ErrorResponse(response_id, IF e = PR.missing_title THEN -32602 ELSE -32603, prefix \o e)
ToolFailure(response_id, prefix, e) == ErrorResponse(response_id, -32603, prefix \o e)
\* the response to an unknown method or tool, on a true request
\* (NotFoundError_Internal: the variant that answers with the internal-error code)
NotFoundError_Internal(response_id, message) == ErrorResponse(response_id, -32603, message)
NotFoundError(response_id, message) == ErrorResponse(response_id, -32601, message)

\* serde_json::to_string(&response): the None fields are skipped
SerializeError(e) ==
    [key \in {"code", "message"} \cup (IF e.data = NoPayload THEN {} ELSE {"data"}) |->
        IF key = "code" THEN [int |-> e.code]
        ELSE IF key = "message" THEN [chars |-> e.message]
        ELSE [value |-> e.data]]

\* (SerializeResponse_NoSkip: the variant that writes result even when it is None)
SerializeResponse_NoSkip(r) ==
    [key \in {"jsonrpc", "result"} \cup (IF r.id = JMissing THEN {} ELSE {"id"})
                         \cup (IF r.error = NoError THEN {} ELSE {"error"}) |->
        IF key = "jsonrpc" THEN [chars |-> r.jsonrpc]
        ELSE IF key = "id" THEN [json |-> r.id]
        ELSE IF key = "result" THEN [value |-> r.result]
        ELSE [object |-> SerializeError(r.error)]]
SerializeResponse(r) ==
    [key \in {"jsonrpc"} \cup (IF r.id = JMissing THEN {} ELSE {"id"})
                         \cup (IF r.result = NoPayload THEN {} ELSE {"result"})
                         \cup (IF r.error = NoError THEN {} ELSE {"error"}) |->
        IF key = "jsonrpc" THEN [chars |-> r.jsonrpc]
        ELSE IF key = "id" THEN [json |-> r.id]
        ELSE IF key = "result" THEN [value |-> r.result]
        ELSE [object |-> SerializeError(r.error)]]

InitializeResult == [k |-> "initialize", protocolVersion |-> "2024-11-05",
                     name |-> "mcp-council", version |-> "0.1.0"]
ToolsListResult == [k |-> "tools", tools |-> <<MCP.peer_review, MCP.finalize>>]
ToolResult(payload) == [k |-> "content", type |-> "text", encoded |-> payload]

\* What handle_request returns and does:
\*   ret     "err" (Err: logged by run, nothing written), "none" (Ok(None)),
\*           "some" (Ok(Some(response))) or "panic"
\*   ws, called, tool: the effects of the tool handler it ran, if any
Handled(ret, response, w, called, tool) ==
    [ret |-> ret, response |-> response, ws |-> w, called |-> called, tool |-> tool]
NoResponse == McpResponse(JMissing, NoPayload, NoError)
NoTool == [name |-> "none", ok |-> FALSE, err |-> <<>>]

\* the match on tool_name calls the tool handler whether or not the message
\* is a notification
\* (RunsTool_RequestsOnly: the variant that runs no tool for a notification)
RunsTool_RequestsOnly(is_notification) == ~is_notification
RunsTool(is_notification) == TRUE

HandleRequest(line, w, env) ==
    LET request == ParseRequest(line)
        is_notification == IsNotification(request.id)
        response_id == IF is_notification THEN JMissing ELSE request.id
        Reply(result) ==
            IF is_notification THEN Handled("none", NoResponse, w, FALSE, NoTool)
            ELSE Handled("some", McpResponse(response_id, result, NoError), w, FALSE, NoTool)
        NotFound(message) ==
            IF is_notification THEN Handled("none", NoResponse, w, FALSE, NoTool)
            ELSE Handled("some", NotFoundError(response_id, message), w, FALSE, NoTool)
        Tool(name, o, prefix) ==
            LET tool == [name |-> name, ok |-> o.ok, err |-> o.err]
            IN  IF o.panic THEN Handled("panic", NoResponse, o.ws, o.called, tool)
                ELSE IF o.ok
                THEN IF is_notification
                     THEN Handled("none", NoResponse, o.ws, o.called, tool)
                     ELSE Handled("some",
                                  McpResponse(response_id, ToolResult(o.payload), NoError),
                                  o.ws, o.called, tool)
                ELSE IF is_notification
                     THEN Handled("none", NoResponse, o.ws, o.called, tool)
                     ELSE Handled("some", ToolFailure(response_id, prefix, o.err),
                                  o.ws, o.called, tool)
    IN  IF ~request.ok THEN Handled("err", NoResponse, w, FALSE, NoTool)
        ELSE IF request.method = MCP.initialize THEN Reply(InitializeResult)
        ELSE IF request.method = MCP.tools_list THEN Reply(ToolsListResult)
        ELSE IF request.method = MCP.tools_call
        THEN IF request.params = JMissing
             THEN Handled("err", NoResponse, w, FALSE, NoTool)
             ELSE IF ~AsStr(JGet(request.params, "name")).some
             THEN Handled("err", NoResponse, w, FALSE, NoTool)
             ELSE
             LET tool_name == AsStr(JGet(request.params, "name")).v
                 arguments == IF JGet(request.params, "arguments") = JMissing
                              THEN JObj(NoFields)
                              ELSE JGet(request.params, "arguments")
             IN  IF ~RunsTool(is_notification)
                 THEN Handled("none", NoResponse, w, FALSE, NoTool)
                 ELSE IF tool_name = MCP.peer_review
                 THEN Tool("peer_review", HandlePeerReview(arguments, w, env),
                           MCP.peer_review_failed)
                 ELSE IF tool_name = MCP.finalize
                 THEN Tool("finalize", HandleFinalize(arguments, w, env), MCP.finalize_failed)
                 ELSE NotFound(MCP.unknown_tool \o tool_name)
        ELSE NotFound(MCP.method_not_found \o request.method)

\* ---------------------------------------------------------------------
\* The inputs of the model: workspaces, request lines, environment
\* ---------------------------------------------------------------------
Fields1(k1, v1) == [k \in {k1} |-> v1]
Fields2(k1, v1, k2, v2) == [k \in {k1, k2} |-> IF k = k1 THEN v1 ELSE v2]
Fields3(k1, v1, k2, v2, k3, v3) ==
    [k \in {k1, k2, k3} |-> IF k = k1 THEN v1 ELSE IF k = k2 THEN v2 ELSE v3]

\* directories of .council/capital before the server starts
EmptyDir == [n \in {} |-> Unreadable]
Stage1Dir ==
    [n \in {Given.claude_answer_md, Given.gpt_answer_json, PR.query_txt} |->
        IF n = Given.claude_answer_md THEN File(Plain(Given.Paris))
        ELSE IF n = Given.gpt_answer_json
        THEN File(JsonText(JObj(Fields2("model", JStr(Given.gpt), "response", JStr(Given.Paris)))))
        ELSE File(Plain(Given.query))]
LegacyDir ==
    [n \in {Given.gpt_answer_json, PR.peer_review_md, Given.peer_review_gemini_md} |->
        IF n = Given.gpt_answer_json
        THEN File(JsonText(JObj(Fields3("model", JStr(Given.gpt), "response", JStr(Given.Paris),
                                        "query", JStr(Given.query)))))
        ELSE File(Plain(Given.old))]
BadAnswerDir ==
    [n \in DOMAIN Stage1Dir \cup {Given.bad_answer_md} |->
        IF n \in DOMAIN Stage1Dir THEN Stage1Dir[n] ELSE Unreadable]

InitDirs == {EmptyDir, Stage1Dir, LegacyDir, BadAnswerDir}

\* the workspaces: .council/capital exists, .council/nope does not
Workspaces(dir) == [t \in {Given.capital} |-> dir]

\* request ids: absent, null, boolean, array, object, string, number
Ids == {JMissing, JNull, JBool, JArr, JObj(NoFields), JStr(<<"a">>), JNum(1)}

PeerReviewArgs ==
    {JMissing, JObj(Fields1("title", JStr(Given.nope))), JObj(Fields1("title", JNum(7)))}
    \cup {JObj(Fields1("title", JStr(Given.capital))),
          JObj(Fields2("title", JStr(Given.capital), "engine", JStr(Given.gemini))),
          JObj(Fields2("title", JStr(Given.capital), "self_model", JStr(Given.GPT))),
          JObj(Fields3("title", JStr(Given.capital), "engine", JStr(Given.gemini),
                       "self_model", JStr(Given.GPT)))}
FinalizeArgs ==
    {JMissing, JObj(Fields1("title", JStr(Given.nope))),
     JObj(Fields1("title", JStr(Given.capital))),
     JObj(Fields2("title", JStr(Given.capital), "engine", JStr(Given.gemini)))}

ToolParams(name, arguments) ==
    IF arguments = JMissing THEN JObj(Fields1("name", name))
    ELSE JObj(Fields2("name", name, "arguments", arguments))

\* the params of tools/call requests: sent with every id, and (the
\* variations of the tools' arguments) sent as a notification and as a request
CoreParams ==
    {JMissing, JNull, JObj(NoFields), JObj(Fields1("name", JNum(3))),
     ToolParams(JStr(Given.other), JMissing),
     ToolParams(JStr(MCP.peer_review), JObj(Fields1("title", JStr(Given.capital)))),
     ToolParams(JStr(MCP.finalize), JObj(Fields1("title", JStr(Given.capital))))}
MoreParams ==
    ({ToolParams(JStr(MCP.peer_review), a) : a \in PeerReviewArgs}
     \cup {ToolParams(JStr(MCP.finalize), a) : a \in FinalizeArgs}) \ CoreParams

RequestJson(id, method, params) ==
    JObj([k \in {"jsonrpc", "method"} \cup (IF id = JMissing THEN {} ELSE {"id"})
                 \cup (IF params = JMissing THEN {} ELSE {"params"}) |->
            IF k = "jsonrpc" THEN JStr(MCP.jsonrpc)
            ELSE IF k = "method" THEN JStr(method)
            ELSE IF k = "id" THEN id ELSE params])

RequestLines ==
    {JsonText(RequestJson(id, m, JMissing)) : id \in Ids, m \in {MCP.initialize, MCP.tools_list, Given.ping}}
    \cup {JsonText(RequestJson(id, MCP.tools_call, p)) : id \in Ids, p \in CoreParams}
    \cup {JsonText(RequestJson(id, MCP.tools_call, p)) : id \in {JMissing, JStr(<<"a">>)}, p \in MoreParams}

\* lines that are not requests: not JSON, JSON without a method
MalformedLines == {Plain(Given.ok), JsonText(JObj(Fields1("id", JNum(1)))), JsonText(JNum(5))}
BlankLines == {Plain(<<>>), Plain(<<" ", "\t">>)}
Lines == RequestLines \cup MalformedLines \cup BlankLines

LlmResults ==
    {[ok |-> FALSE, text |-> Plain(<<>>)], [ok |-> TRUE, text |-> Plain(Given.ok)],
     [ok |-> TRUE, text |-> Plain(Given.long)]}

\* the tool call a line asks for, if it is one
CallOf(line) ==
    LET request == ParseRequest(line)
    IN  IF /\ request.ok
           /\ request.method = MCP.tools_call
           /\ AsStr(JGet(request.params, "name")).some
        THEN [name |-> AsStr(JGet(request.params, "name")).v,
              arguments |-> IF JGet(request.params, "arguments") = JMissing
                            THEN JObj(NoFields) ELSE JGet(request.params, "arguments")]
        ELSE [name |-> <<>>, arguments |-> JObj(NoFields)]

\* the directory a tool call reads
DirOf(arguments, w) ==
    IF AsStr(JGet(arguments, "title")).some /\ AsStr(JGet(arguments, "title")).v \in DOMAIN w
    THEN w[AsStr(JGet(arguments, "title")).v]
    ELSE EmptyDir

FirstJsons(dir) == IF Stage1JsonNames(dir) = {} THEN {<<>>} ELSE Stage1JsonNames(dir)
RenameOutcomes == {"rename", "copy", "fail"}

\* the environment's choices a call can observe: a call on a directory
\* without Stage1 answer files returns before it consults any of them, only
\* legacy review files are renamed, and the enumeration of the Stage1 JSON
\* files is consulted only when no query file exists
HasLegacy(dir) == PR.peer_review_md \in DOMAIN dir \/ \E n \in DOMAIN dir : IsLegacyName(n)
HasQueryFile(dir) == \E i \in 1..Len(PossibleFiles) : PossibleFiles[i] \in DOMAIN dir
FirstJsonChoices(dir) == IF HasQueryFile(dir) THEN {<<>>} ELSE FirstJsons(dir)
\* the collaborator's result, the renames and the final write: a failed
\* collaborator ends the call before the renames and the write, and a write
\* that fails leaves nothing of the collaborator's text
Endings(renames) ==
    {[llm |-> l, rename |-> "rename", write |-> "ok"] : l \in {r \in LlmResults : ~r.ok}}
    \cup {[llm |-> l, rename |-> r, write |-> "ok"] : l \in {r \in LlmResults : r.ok}, r \in renames}
    \cup {[llm |-> [ok |-> TRUE, text |-> Plain(Given.ok)], rename |-> r, write |-> wr] :
             r \in renames, wr \in WriteOutcomes \ {"ok"}}
PeerReviewEnvs(dir) ==
    {[order |-> o, reviews |-> <<>>, first_json |-> fj,
      llm |-> e.llm, rename |-> e.rename, write |-> e.write] :
        o \in Enumerations(Stage1Names(dir)), fj \in FirstJsonChoices(dir),
        e \in Endings(IF HasLegacy(dir) THEN RenameOutcomes ELSE {"rename"})}
FinalizeEnvs(dir) ==
    {[order |-> ov[1], reviews |-> ov[2], first_json |-> fj,
      llm |-> e.llm, rename |-> e.rename, write |-> e.write] :
        ov \in Enumerations(Stage1Names(dir)) \X Enumerations(Stage2Names(dir)),
        fj \in FirstJsonChoices(dir), e \in Endings({"rename"})}
NoEnv == [order |-> <<>>, reviews |-> <<>>, first_json |-> <<>>,
          llm |-> [ok |-> FALSE, text |-> Plain(<<>>)], rename |-> "rename", write |-> "ok"]

Envs(line, w) ==
    LET call == CallOf(line)
        dir == DirOf(call.arguments, w)
    IN  IF call.name \notin {MCP.peer_review, MCP.finalize} \/ Stage1Names(dir) = {} THEN {NoEnv}
        ELSE IF call.name = MCP.peer_review THEN PeerReviewEnvs(dir)
        ELSE FinalizeEnvs(dir)

\* ---------------------------------------------------------------------
\* The server: McpServer::run
\* ---------------------------------------------------------------------
VARIABLES
    pc,        \* "read": at read_line; "handle": at handle_request; "handled": at the
               \* end of the loop body; "done": run returned; "crashed": panicked
    line,      \* the buffer, trimmed
    nread,     \* number of lines read so far
    out,       \* the line written to stdout in this iteration of the loop, if any
    nout,      \* number of lines written to stdout so far
    ws,        \* the workspaces under .council: title -> directory
    ws0,       \* the workspaces when the server started
    reviewed,  \* whether a peer_review call has succeeded
    last,      \* what handle_request did in this iteration of the loop
    fn         \* the call of a function checked on its own: [name, done, ...]

vars == <<pc, line, nread, out, nout, ws, ws0, reviewed, last, fn>>

NoFn == [name |-> "none", done |-> FALSE]

NoLast == [ret |-> "none", tool |-> NoTool, called |-> FALSE, before |-> [t \in {} |-> EmptyDir]]

Init ==
    /\ pc = "read"
    /\ line = Plain(<<>>)
    /\ nread = 0
    /\ out = <<>>
    /\ nout = 0
    /\ \E dir \in InitDirs : ws = Workspaces(dir)
    /\ ws0 = ws
    /\ reviewed = FALSE
    /\ last = NoLast
    /\ fn = NoFn

\* read_line returned a line that is empty once trimmed: continue
SkipBlank ==
    /\ pc = "read"
    /\ nread < MaxLines
    /\ \E l \in Lines :
        /\ TrimText(l) = Plain(<<>>)
        /\ line' = TrimText(l)
    /\ nread' = nread + 1
    /\ pc' = "handled"
    /\ UNCHANGED <<out, nout, ws, ws0, reviewed, last, fn>>

\* read_line returned a line that is not blank
\* (ReadLine_Pipelined: the variant that reads the next line while the
\* line before it is still to be handled)
ReadLine_Pipelined ==
    /\ pc \in {"read", "handle"}
    /\ nread < MaxLines
    /\ \E l \in Lines :
        /\ TrimText(l) # Plain(<<>>)
        /\ line' = TrimText(l)
    /\ nread' = nread + 1
    /\ pc' = "handle"
    /\ UNCHANGED <<out, nout, ws, ws0, reviewed, last, fn>>
ReadLine ==
    /\ pc = "read"
    /\ nread < MaxLines
    /\ \E l \in Lines :
        /\ TrimText(l) # Plain(<<>>)
        /\ line' = TrimText(l)
    /\ nread' = nread + 1
    /\ pc' = "handle"
    /\ UNCHANGED <<out, nout, ws, ws0, reviewed, last, fn>>

\* read_line returned 0 bytes: break, Ok(())
Eof ==
    /\ pc = "read"
    /\ pc' = "done"
    /\ UNCHANGED <<line, nread, out, nout, ws, ws0, reviewed, last, fn>>

\* handle_request(line) and the match on its result: the response, if any,
\* is written and flushed
Handle ==
    /\ pc = "handle"
    /\ \E env \in Envs(line, ws) :
        \E h \in {HandleRequest(line, ws, env)} :
            /\ ws' = h.ws
            /\ out' = IF h.ret = "some" THEN <<SerializeResponse(h.response)>> ELSE <<>>
            /\ nout' = IF h.ret = "some" THEN nout + 1 ELSE nout
            /\ pc' = IF h.ret = "panic" THEN "crashed" ELSE "handled"
            /\ reviewed' = (reviewed \/ (h.tool.name = "peer_review" /\ h.tool.ok))
            /\ last' = [ret |-> h.ret, tool |-> h.tool, called |-> h.called, before |-> ws]
    /\ UNCHANGED <<line, nread, ws0, fn>>

\* the end of the loop body: back to the top, buffer.clear()
Loop ==
    /\ pc = "handled"
    /\ pc' = "read"
    /\ line' = Plain(<<>>)
    /\ out' = <<>>
    /\ last' = NoLast
    /\ UNCHANGED <<nread, nout, ws, ws0, reviewed, fn>>

\* the server process, ended by end of input or by a panic, is started
\* again on the same file system
Restart ==
    /\ pc \in {"done", "crashed"}
    /\ nread < MaxLines
    /\ pc' = "read"
    /\ line' = Plain(<<>>)
    /\ out' = <<>>
    /\ last' = NoLast
    /\ UNCHANGED <<nread, nout, ws, ws0, reviewed, fn>>

Next == SkipBlank \/ ReadLine \/ Eof \/ Handle \/ Loop \/ Restart

Spec == Init /\ [][Next]_vars

\* ---------------------------------------------------------------------
\* Vocabulary of the properties
\* ---------------------------------------------------------------------
\* the id as it stands in the line
RawId(l) == IF l.k = "json" THEN JGet(l.j, "id") ELSE JMissing
\* the line parses as a request and carries a bare string or number id
TrueRequest(l) == ParseRequest(l).ok /\ RawId(l).t \in {"str", "num"}
\* the line parses as a request whose id is absent, null, a boolean, an array or an object
NotificationLine(l) == ParseRequest(l).ok /\ RawId(l).t \in {"missing", "null", "bool", "arr", "obj"}
MethodOf(l) == ParseRequest(l).method
\* a tools/call request without params or without a string params.name
LacksParamsOrName(l) ==
    /\ ParseRequest(l).ok
    /\ MethodOf(l) = MCP.tools_call
    /\ ~AsStr(JGet(ParseRequest(l).params, "name")).some
\* handle_request has returned for the line in the buffer
LineHandled == pc = "handled" /\ line # Plain(<<>>)
\* a tool handler ran for the line in the buffer and returned Err
ToolFailed == LineHandled /\ last.tool.name # "none" /\ ~last.tool.ok
IsErrorLine(msg, code) ==
    /\ "error" \in DOMAIN msg
    /\ msg.error.object.code.int = code
    /\ "result" \notin DOMAIN msg

\* ---------------------------------------------------------------------
\* Properties of the server (specification Spec)
\* ---------------------------------------------------------------------

\* C1: every line that parses as a request and carries a string or number id
\* gets exactly one response line, whatever the method, the params and the
\* handler outcome.
C1_ExactlyOneResponse ==
    (pc \in {"handled", "crashed"} /\ TrueRequest(line)) => Len(out) = 1

\* C2: a message whose id is absent, null, a boolean, an array or an object
\* gets no output line, for every method and whether the tool handler
\* succeeds or fails.
C2_NotificationsSilent ==
    (pc \in {"handled", "crashed"} /\ NotificationLine(line)) => out = <<>>

C2_Witness ==
    /\ ToolFailed
    /\ RawId(line).t = "bool"
    /\ last.tool.name = "finalize"
    /\ out = <<>>

\* C3: on a true request, every failure inside a tool handler is answered
\* with an error of code -32603, without result and without error data.
C3_ToolFailureIs32603 ==
    (ToolFailed /\ TrueRequest(line)) =>
        /\ Len(out) = 1
        /\ IsErrorLine(out[1], -32603)
        /\ "data" \notin DOMAIN out[1].error.object

C3_Witness ==
    /\ ToolFailed
    /\ TrueRequest(line)
    /\ last.tool.err = PR.missing_title
    /\ Len(out) = 1
    /\ IsErrorLine(out[1], -32603)

\* C4: a true request with method tools/call whose params are missing, or
\* have no string name, is answered with an error of code -32603 carrying
\* the request's id.
C4_MissingParamsIs32603 ==
    (LineHandled /\ TrueRequest(line) /\ LacksParamsOrName(line)) =>
        /\ Len(out) = 1
        /\ IsErrorLine(out[1], -32603)
        /\ "id" \in DOMAIN out[1]
        /\ out[1].id.json = RawId(line)

\* C5: on a true request, an unknown method and a tools/call with an unknown
\* tool name are answered with an error of code -32601, and no tool handler
\* or collaborator is invoked.
UnknownMethodOrTool(l) ==
    /\ ParseRequest(l).ok
    /\ \/ MethodOf(l) \notin {MCP.initialize, MCP.tools_list, MCP.tools_call}
       \/ /\ MethodOf(l) = MCP.tools_call
          /\ AsStr(JGet(ParseRequest(l).params, "name")).some
          /\ CallOf(l).name \notin {MCP.peer_review, MCP.finalize}

C5_NotFoundIs32601 ==
    (LineHandled /\ TrueRequest(line) /\ UnknownMethodOrTool(line)) =>
        /\ Len(out) = 1
        /\ IsErrorLine(out[1], -32601)
        /\ last.tool.name = "none"
        /\ ~last.called
        /\ ws = last.before

C5_Witness ==
    /\ LineHandled
    /\ TrueRequest(line)
    /\ MethodOf(line) = MCP.tools_call
    /\ CallOf(line).name = Given.other
    /\ Len(out) = 1
    /\ IsErrorLine(out[1], -32601)

\* C6: every response written contains exactly one of result and error, and
\* carries the id of the request it answers.
C6_ResponseShape ==
    LineHandled =>
        \A i \in 1..Len(out) :
            /\ ("result" \in DOMAIN out[i]) # ("error" \in DOMAIN out[i])
            /\ "id" \in DOMAIN out[i]
            /\ out[i].id.json = RawId(line)

C6_Witness ==
    /\ LineHandled
    /\ Len(out) = 1
    /\ "error" \in DOMAIN out[1]
    /\ "result" \notin DOMAIN out[1]
    /\ out[1].id.json = JNum(1)

\* C7: a blank line or a line that does not parse as a request produces no
\* response, and neither it nor a failed call changes how later lines are
\* handled: the server goes on to the next line with the workspaces (the
\* only state a later call reads) as they were.
C7_FailuresLeaveNoTrace ==
    [][/\ (pc = "read" /\ pc' = "handled") => (out' = <<>> /\ nout' = nout /\ ws' = ws)
       /\ (pc = "handle" /\ ~ParseRequest(line).ok) =>
              (out' = <<>> /\ nout' = nout /\ ws' = ws /\ pc' = "handled")
       /\ (pc = "handle" /\ last'.tool.name # "none" /\ ~last'.tool.ok) =>
              (ws' = ws /\ pc' = "handled")]_vars

\* ---------------------------------------------------------------------
\* Properties of the tools, as called by the server (specification Spec)
\* ---------------------------------------------------------------------
\* the line in the buffer is a call of the tool on the workspace .council/capital
CallsOn(l, tool_name) ==
    /\ CallOf(l).name = tool_name
    /\ AsStr(JGet(CallOf(l).arguments, "title")) = Some(Given.capital)
\* the workspace holds Stage1 answer files and no file whose name contains peer-review
OnlyStage1(w) == Stage1Names(w[Given.capital]) # {} /\ Stage2Names(w[Given.capital]) = {}
AllStage1Readable(w) == \A n \in Stage1Names(w[Given.capital]) : w[Given.capital][n].readable
IsFinalName(n) == StartsWith(n, FIN.final_answer_by)

\* C8 as stated: finalize on a workspace with Stage1 answer files and no
\* peer-review file fails with an error mentioning "Stage2", invokes no
\* collaborator and leaves the workspace unchanged.
C8_FinalizeNeedsStage2 ==
    (LineHandled /\ CallsOn(line, MCP.finalize) /\ OnlyStage1(last.before)) =>
        /\ ~last.tool.ok
        /\ Contains(last.tool.err, Given.Stage2)
        /\ ~last.called
        /\ ws = last.before

\* C8 amended: the same, for a workspace whose Stage1 answer files can all
\* be read as text.
C8_FinalizeNeedsStage2_Readable ==
    (/\ LineHandled
     /\ CallsOn(line, MCP.finalize)
     /\ OnlyStage1(last.before)
     /\ AllStage1Readable(last.before)) =>
        /\ ~last.tool.ok
        /\ Contains(last.tool.err, Given.Stage2)
        /\ ~last.called
        /\ ws = last.before

C8_Witness ==
    /\ LineHandled
    /\ CallsOn(line, MCP.finalize)
    /\ OnlyStage1(last.before)
    /\ AllStage1Readable(last.before)
    /\ last.tool.err = FIN.no_stage2
    /\ ws = last.before

\* C9: on a workspace that starts with Stage1 answer files and no file whose
\* name contains peer-review, a final-answer file is written only after a
\* peer_review call has succeeded (has returned Ok).
FinalWritten == \E n \in DOMAIN ws[Given.capital] \ DOMAIN ws0[Given.capital] : IsFinalName(n)

C9_ReviewBeforeFinal == (OnlyStage1(ws0) /\ FinalWritten) => reviewed

\* ---------------------------------------------------------------------
\* The exclusion and labelling of handle_peer_review on its own
\* (specification SpecLabels): any number of loaded answers up to MaxAnswers
\* ---------------------------------------------------------------------
\* n loaded Stage1 answers; those at the positions in matching come from the
\* model "gpt", the others from "claude"
LoadedAnswers(n, matching) ==
    [i \in 1..n |->
        [file |-> <<AsciiFrom65[i]>> \o PR.dash_answer_md,
         content |-> [model |-> IF i \in matching THEN Given.gpt ELSE PR.claude,
                      response |-> Plain(Given.Paris), raw |-> Plain(Given.Paris)]]]

LabelInputs ==
    {[name |-> "relabel", done |-> FALSE, loaded |-> LoadedAnswers(n, m), self_model |-> sm,
      answers |-> <<>>] :
        n \in 1..MaxAnswers,
        m \in {{}} \cup {{k} : k \in 1..MaxAnswers} \cup {{k, k + 1} : k \in 1..MaxAnswers},
        sm \in {None, Some(Given.GPT)}}

InitLabels ==
    /\ pc = "fn"
    /\ line = Plain(<<>>)
    /\ nread = 0
    /\ out = <<>>
    /\ nout = 0
    /\ ws = Workspaces(EmptyDir)
    /\ ws0 = ws
    /\ reviewed = FALSE
    /\ last = NoLast
    /\ fn \in LabelInputs

\* the loading loop's exclusion and the re-labelling loop
ApplyRelabel ==
    /\ fn.name = "relabel"
    /\ ~fn.done
    /\ fn' = [fn EXCEPT !.done = TRUE,
                        !.answers = Relabel(Survivors(fn.loaded, fn.self_model))]
    /\ UNCHANGED <<pc, line, nread, out, nout, ws, ws0, reviewed, last>>

NextLabels == ApplyRelabel

SpecLabels == InitLabels /\ [][NextLabels]_vars

\* C10: excluding the self_model that matches one of N loaded answers leaves
\* N-1 labelled answers, and for every number of surviving answers the labels
\* are "Response A", "Response B", ...: consecutive capital letters from A,
\* in enumeration order.
C10_LabelsConsecutive ==
    (fn.name = "relabel" /\ fn.done) =>
        /\ Cardinality({i \in 1..Len(fn.loaded) : IsSelf(fn.loaded[i].content, fn.self_model)}) = 1
               => Len(fn.answers) = Len(fn.loaded) - 1
        /\ \A i \in 1..Len(fn.answers) :
               /\ i <= Len(UpperLetters)
               /\ fn.answers[i].label = PR.Response \o <<UpperLetters[i]>>

\* ---------------------------------------------------------------------
\* Properties of the legacy migration, as run by peer_review calls
\* (specification Spec)
\* ---------------------------------------------------------------------
\* the canonical name of a legacy review file peer-review-<e>.md
CanonicalOf(n) == ReviewFileName(EnginePart(n))
\* the legacy review files of a directory whose canonical name is free
LegacyToMigrate(dir) ==
    {n \in DOMAIN dir : /\ IsLegacyName(n)
                        /\ EnginePart(n) # <<>>
                        /\ CanonicalOf(n) \notin DOMAIN dir}
\* the canonical review file of the call in the buffer
ReviewNameOf(l) ==
    LET engine == AsStr(JGet(CallOf(l).arguments, "engine"))
    IN  ReviewFileName(EngineForFile(EngineOf(IF engine.some THEN engine.v ELSE PR.claude)))

\* C11: after any peer_review call on a workspace that holds a legacy file
\* peer-review-<e>.md and no peer-review-by-<e>.md, peer-review-by-<e>.md
\* holds the content the legacy file had and the legacy file is gone.
C11_LegacyMigrated ==
    (LineHandled /\ CallsOn(line, MCP.peer_review)) =>
        \A n \in LegacyToMigrate(last.before[Given.capital]) :
            /\ n \notin DOMAIN ws[Given.capital]
            /\ CanonicalOf(n) \in DOMAIN ws[Given.capital]
            /\ ws[Given.capital][CanonicalOf(n)] = last.before[Given.capital][n]

\* C12: after a successful peer_review call on a workspace that holds
\* peer-review.md and not the canonical review file of the call's engine,
\* peer-review.md is gone and the canonical file holds the content it had.
C12_BareMoved ==
    (/\ LineHandled
     /\ CallsOn(line, MCP.peer_review)
     /\ last.tool.ok
     /\ PR.peer_review_md \in DOMAIN last.before[Given.capital]
     /\ ReviewNameOf(line) \notin DOMAIN last.before[Given.capital]) =>
        /\ PR.peer_review_md \notin DOMAIN ws[Given.capital]
        /\ \E n \in DOMAIN ws[Given.capital] :
               /\ n = ReviewNameOf(line)
               /\ ws[Given.capital][n] = last.before[Given.capital][PR.peer_review_md]

\* ---------------------------------------------------------------------
\* The legacy migration of handle_peer_review on its own (specification
\* SpecMigrate): the migration step of a call, the call's write, and the
\* migration step of the same call run again
\* ---------------------------------------------------------------------
\* the review files a directory may hold, legacy and canonical, and a Stage1 answer
MigrateNames ==
    {PR.peer_review_md, Given.peer_review_gemini_md, ReviewFileName(Given.gemini),
     ReviewFileName(PR.claude), Given.gpt_answer_json}

\* each file holds its own name, or cannot be read as text
MigrateInputs ==
    {[name |-> "migrate", done |-> FALSE,
      dir |-> [n \in names |-> IF n \in unreadable THEN Unreadable ELSE File(Plain(n))],
      review_name |-> rn, how |-> h1, again |-> h2,
      result |-> EmptyDir, written |-> EmptyDir, result2 |-> EmptyDir] :
        names \in SUBSET MigrateNames,
        unreadable \in {{}, {Given.peer_review_gemini_md}},
        rn \in {ReviewFileName(PR.claude), ReviewFileName(Given.gemini)},
        h1 \in RenameOutcomes, h2 \in RenameOutcomes}

InitMigrate ==
    /\ pc = "fn"
    /\ line = Plain(<<>>)
    /\ nread = 0
    /\ out = <<>>
    /\ nout = 0
    /\ ws = Workspaces(EmptyDir)
    /\ ws0 = ws
    /\ reviewed = FALSE
    /\ last = NoLast
    /\ fn \in MigrateInputs

ApplyMigrate ==
    /\ fn.name = "migrate"
    /\ ~fn.done
    /\ \E migrated \in {Migrate(fn.dir, fn.review_name, fn.how)} :
       \E written \in {WriteFile(migrated, fn.review_name, Plain(Given.ok))} :
           fn' = [fn EXCEPT !.done = TRUE, !.result = migrated, !.written = written,
                            !.result2 = Migrate(written, fn.review_name, fn.again)]
    /\ UNCHANGED <<pc, line, nread, out, nout, ws, ws0, reviewed, last>>

NextMigrate == ApplyMigrate

SpecMigrate == InitMigrate /\ [][NextMigrate]_vars

IsCanonicalName(n) == Contains(n, PR.peer_review_by)
\* every rename of the step succeeded, directly or by the copy fallback
RenamesSucceeded ==
    \/ fn.how = "rename"
    \/ fn.how = "copy" /\ \A n \in DOMAIN fn.dir : fn.dir[n].readable

NoRun ==
    [ok |-> FALSE, panic |-> FALSE, file |-> <<>>, review |-> Plain(<<>>), prompt |-> NoPrompt,
     dir |-> EmptyDir]
\* what a run leaves: its result, the path it returns, the collaborator's
\* output, the prompt it sent, the directory
RunOf(o, env) ==
    [ok |-> o.ok, panic |-> o.panic, file |-> IF o.ok THEN o.payload.file ELSE <<>>,
     review |-> env.llm.text, prompt |-> o.prompt, dir |-> o.ws[Given.capital]]

TwiceInputs ==
    {[name |-> "twice", done |-> FALSE, params |-> a, dir |-> d, first |-> NoRun, second |-> NoRun] :
        a \in PeerReviewArgs \ {JMissing}, d \in InitDirs \ {EmptyDir}}

InitTwice ==
    /\ pc = "fn"
    /\ line = Plain(<<>>)
    /\ nread = 0
    /\ out = <<>>
    /\ nout = 0
    /\ ws = Workspaces(EmptyDir)
    /\ ws0 = ws
    /\ reviewed = FALSE
    /\ last = NoLast
    /\ fn \in TwiceInputs

\* the environment of the second run: the collaborator may answer otherwise
SecondEnvs(dir) ==
    PeerReviewEnvs(dir)
    \cup {[e EXCEPT !.llm = [ok |-> TRUE, text |-> Plain(Given.old)]] :
            e \in {x \in PeerReviewEnvs(dir) : x.llm.ok /\ x.write = "ok"}}

ApplyTwice ==
    /\ fn.name = "twice"
    /\ ~fn.done
    /\ \E env1 \in PeerReviewEnvs(fn.dir) :
       \E o1 \in {HandlePeerReview(fn.params, Workspaces(fn.dir), env1)} :
       \E env2 \in SecondEnvs(DirOf(fn.params, o1.ws)) :
       \E o2 \in {HandlePeerReview(fn.params, o1.ws, env2)} :
           fn' = [fn EXCEPT !.done = TRUE, !.first = RunOf(o1, env1), !.second = RunOf(o2, env2)]
    /\ UNCHANGED <<pc, line, nread, out, nout, ws, ws0, reviewed, last>>

NextTwice == ApplyTwice

SpecTwice == InitTwice /\ [][NextTwice]_vars

HeaderTexts(md) == {md.title, md.engine, md.query.s}
\* a labelled response stands in the header of a review file
InHeader(md, r) ==
    \E part \in HeaderTexts(md) : Contains(part, r.label) /\ Contains(part, r.text.s)
\* the review file a successful run has written
WrittenBy(run) == run.dir[run.file].text

\* C15 as stated: after a successful call the review file holds every
\* labelled Stage1 response (label and extracted content) in its header.
C15_ResponsesInFile ==
    (fn.name = "twice" /\ fn.done /\ fn.first.ok) =>
        \A i \in 1..Len(fn.first.prompt.responses) :
            InHeader(WrittenBy(fn.first), fn.first.prompt.responses[i])

\* C15 amended: after a successful call the review file holds the title,
\* the engine, the number of labelled responses and the user question in
\* its header, followed by the collaborator's output; the labelled
\* responses are in the prompt sent to the collaborator.
C15_HeaderAndReview ==
    (fn.name = "twice" /\ fn.done /\ fn.first.ok) =>
        /\ WrittenBy(fn.first).k = "review_md"
        /\ WrittenBy(fn.first).title = AsStr(JGet(fn.params, "title")).v
        /\ WrittenBy(fn.first).engine =
               EngineOf(IF AsStr(JGet(fn.params, "engine")).some
                        THEN AsStr(JGet(fn.params, "engine")).v ELSE PR.claude)
        /\ WrittenBy(fn.first).answers = Len(fn.first.prompt.responses)
        /\ WrittenBy(fn.first).query = fn.first.prompt.query
        /\ WrittenBy(fn.first).review = fn.first.review
        /\ \A i \in 1..Len(fn.first.prompt.responses) :
               fn.first.prompt.responses[i].label = PR.Response \o <<UpperLetters[i]>>

C15_Witness ==
    /\ fn.name = "twice" /\ fn.done /\ fn.first.ok
    /\ Len(fn.first.prompt.responses) = 2
    /\ fn.first.prompt.responses[2].label = PR.Response \o <<"B">>
    /\ fn.first.prompt.responses[2].text = Plain(Given.Paris)
    /\ WrittenBy(fn.first).answers = 2
    /\ WrittenBy(fn.first).engine = Given.gemini
    /\ WrittenBy(fn.first).review = Plain(Given.ok)

\* ---------------------------------------------------------------------
\* find_council_dir (the same function in both tools) on its own
\* (specification SpecResolve).  Directories are levels above the current
\* directory: 0 is the current directory, 1 its parent, ...; the root is at
\* level depth and has no parent.
\* ---------------------------------------------------------------------
\* the loop "for _ in 0..5": dir is at level l, left iterations remain
RECURSIVE WalkUp(_, _, _, _)
WalkUp(l, left, depth, has) ==
    IF left = 0 THEN [found |-> FALSE, level |-> 0]
    ELSE IF l \in has THEN [found |-> TRUE, level |-> l]
    ELSE IF l < depth THEN WalkUp(l + 1, left - 1, depth, has)
    ELSE [found |-> FALSE, level |-> 0]

\* has: the levels whose directory holds .council.  The result is the level
\* whose .council is returned; when none is found, that of the current
\* directory, which does not exist.
FindCouncilDir(depth, has) ==
    IF 0 \in has THEN [found |-> TRUE, level |-> 0]
    ELSE WalkUp(0, 5, depth, has)

ResolveInputs ==
    {[name |-> "resolve", done |-> FALSE, depth |-> d, has |-> h,
      result |-> [found |-> FALSE, level |-> 0]] :
        d \in 0..MaxDepth, h \in SUBSET (0..MaxDepth)}

InitResolve ==
    /\ pc = "fn"
    /\ line = Plain(<<>>)
    /\ nread = 0
    /\ out = <<>>
    /\ nout = 0
    /\ ws = Workspaces(EmptyDir)
    /\ ws0 = ws
    /\ reviewed = FALSE
    /\ last = NoLast
    /\ fn \in {i \in ResolveInputs : i.has \subseteq 0..i.depth}

ApplyResolve ==
    /\ fn.name = "resolve"
    /\ ~fn.done
    /\ fn' = [fn EXCEPT !.done = TRUE, !.result = FindCouncilDir(fn.depth, fn.has)]
    /\ UNCHANGED <<pc, line, nread, out, nout, ws, ws0, reviewed, last>>

NextResolve == ApplyResolve

SpecResolve == InitResolve /\ [][NextResolve]_vars

\* C16: .council of the current directory is used when it exists; otherwise
\* that of the nearest of the 5 nearest ancestors that has one; otherwise
\* the resolver falls back to .council of the current directory.
C16_NearestOfFiveAncestors ==
    (fn.name = "resolve" /\ fn.done) =>
        LET near == fn.has \cap (0..5)
        IN  IF near = {} THEN fn.result = [found |-> FALSE, level |-> 0]
            ELSE fn.result = [found |-> TRUE,
                              level |-> CHOOSE l \in near : \A k \in near : l <= k]

\* the line in the buffer is a call of one of the two tools on the
\* workspace .council/nope, which does not exist
CallsMissing(l) ==
    /\ CallOf(l).name \in {MCP.peer_review, MCP.finalize}
    /\ AsStr(JGet(CallOf(l).arguments, "title")) = Some(Given.nope)

\* C17: a peer_review or finalize call for a title whose directory does not
\* exist fails with an error naming the directory (code -32603 on a true
\* request), invokes no collaborator and creates neither the directory nor
\* a file; no tool call ever creates a workspace.
C17_MissingWorkspaceFails ==
    /\ DOMAIN ws = DOMAIN ws0
    /\ (pc \in {"handled", "crashed"} /\ CallsMissing(line)) =>
        /\ pc = "handled"
        /\ last.tool.name \in {"peer_review", "finalize"}
        /\ ~last.tool.ok
        /\ last.tool.err = PR.dir_not_found \o Given.nope
        /\ ~last.called
        /\ ws = last.before
        /\ TrueRequest(line) => (Len(out) = 1 /\ IsErrorLine(out[1], -32603))

C17_Witness ==
    /\ LineHandled
    /\ CallsMissing(line)
    /\ TrueRequest(line)
    /\ last.tool.name = "finalize"
    /\ Given.nope \notin DOMAIN ws
    /\ IsErrorLine(out[1], -32603)

\* ---------------------------------------------------------------------
\* extract_user_query (the same function in both tools) on its own
\* (specification SpecQuery)
\* ---------------------------------------------------------------------
\* each of the four query files is absent, holds its own name between
\* blanks, or cannot be read as text
QueryFileStates == {"absent", "text", "unreadable"}
QueryFileOf(name, state) ==
    IF state = "text" THEN File(Plain(<<" ", "\t">> \o name \o <<" ">>)) ELSE Unreadable

\* a Stage1 JSON answer file is absent, or holds a string query, a string
\* user_query, neither, a query that is not a string beside a string
\* user_query, text that is not JSON, or cannot be read as text
JsonFileStates == {"absent", "query", "user_query", "neither", "number", "text", "unreadable"}
JsonFileOf(state) ==
    IF state = "query" THEN File(JsonText(JObj(Fields1("query", JStr(Given.query)))))
    ELSE IF state = "user_query" THEN File(JsonText(JObj(Fields1("user_query", JStr(Given.old)))))
    ELSE IF state = "neither" THEN File(JsonText(JObj(Fields1("model", JStr(Given.gpt)))))
    ELSE IF state = "number"
    THEN File(JsonText(JObj(Fields2("query", JNum(7), "user_query", JStr(Given.old)))))
    ELSE IF state = "text" THEN File(Plain(Given.ok))
    ELSE Unreadable

JsonFileNames == <<Given.gpt_answer_json, Given.gemini \o PR.dash_answer_json>>

QueryDir(qs, js) ==
    LET qnames == {PossibleFiles[i] : i \in {i \in 1..4 : qs[i] # "absent"}}
        jnames == {JsonFileNames[i] : i \in {i \in 1..2 : js[i] # "absent"}}
        IndexOf(seq, n) == CHOOSE i \in 1..Len(seq) : seq[i] = n
    IN  [n \in qnames \cup jnames |->
            IF n \in qnames THEN QueryFileOf(n, qs[IndexOf(PossibleFiles, n)])
            ELSE JsonFileOf(js[IndexOf(JsonFileNames, n)])]

QueryDirs ==
    {QueryDir(qs, js) : qs \in [1..4 -> QueryFileStates], js \in [1..2 -> JsonFileStates]}

NoQuery == [ok |-> FALSE, text |-> Plain(<<>>), err |-> <<>>]

InitQuery ==
    /\ pc = "fn"
    /\ line = Plain(<<>>)
    /\ nread = 0
    /\ out = <<>>
    /\ nout = 0
    /\ ws = Workspaces(EmptyDir)
    /\ ws0 = ws
    /\ reviewed = FALSE
    /\ last = NoLast
    /\ \E dir \in QueryDirs : \E fj \in FirstJsonChoices(dir) :
        fn = [name |-> "query", done |-> FALSE, dir |-> dir, first_json |-> fj,
              result |-> NoQuery]

ApplyQuery ==
    /\ fn.name = "query"
    /\ ~fn.done
    /\ fn' = [fn EXCEPT !.done = TRUE, !.result = ExtractUserQuery(fn.dir, fn.first_json)]
    /\ UNCHANGED <<pc, line, nread, out, nout, ws, ws0, reviewed, last>>

NextQuery == ApplyQuery

SpecQuery == InitQuery /\ [][NextQuery]_vars

\* the query files that exist, as positions in the list of four
PresentQueryFiles(dir) == {i \in 1..Len(PossibleFiles) : PossibleFiles[i] \in DOMAIN dir}
FirstQueryFile(dir) ==
    PossibleFiles[CHOOSE i \in PresentQueryFiles(dir) : \A j \in PresentQueryFiles(dir) : i <= j]

\* C18: when one of query.txt, user_query.txt, question.txt, input.txt
\* exists, extract_user_query returns the trimmed content of the first of
\* them that exists, whatever the later ones and the Stage1 files hold.
C18_FirstExistingQueryFile ==
    (fn.name = "query" /\ fn.done /\ PresentQueryFiles(fn.dir) # {}) =>
        /\ fn.result.ok
        /\ fn.result.text = Plain(FirstQueryFile(fn.dir))

\* the string the file offers as the query: its query field, or else its
\* user_query field
QueryFieldOf(file) ==
    LET parsed == ParseJson(file.text)
    IN  IF ~file.readable \/ ~parsed.ok THEN None
        ELSE IF AsStr(JGet(parsed.j, "query")).some THEN AsStr(JGet(parsed.j, "query"))
        ELSE AsStr(JGet(parsed.j, "user_query"))
QueryFields(dir) ==
    {QueryFieldOf(dir[n]).v : n \in {n \in Stage1JsonNames(dir) : QueryFieldOf(dir[n]).some}}

\* C19: extract_user_query never fails, and when none of the four query
\* files exists it returns the query (or else user_query) string of a Stage1
\* JSON answer file whenever one of them has such a field, and
\* "Unknown query" only when none has.
C19_QueryFromStage1OrUnknown ==
    (fn.name = "query" /\ fn.done) =>
        /\ fn.result.ok
        /\ PresentQueryFiles(fn.dir) = {} =>
            IF QueryFields(fn.dir) # {}
            THEN \E q \in QueryFields(fn.dir) : fn.result.text = Plain(q)
            ELSE fn.result.text = Plain(PR.Unknown_query)

\* C20: processing is strictly sequential.  A line is read only at the top
\* of the loop, when no line is being handled, and reading starts no
\* handling; a collaborator call, a change of a workspace and a response
\* happen only in the handling of the one line in the buffer, before the
\* next read; a response written is the response to that line.
C20_StrictlySequential ==
    [][/\ (nread' # nread) =>
            /\ pc = "read"
            /\ nread' = nread + 1
            /\ pc' \in {"handle", "handled"}
            /\ out = <<>> /\ last = NoLast
            /\ UNCHANGED <<out, nout, ws, last>>
       /\ (nout' # nout \/ ws' # ws \/ last'.called) =>
            /\ pc = "handle"
            /\ pc' \in {"handled", "crashed"}
            /\ UNCHANGED <<line, nread>>
            /\ nout' \in {nout, nout + 1}
            /\ (nout' = nout + 1) => (Len(out') = 1 /\ out'[1].id.json = RawId(line))
       /\ (pc = "handle" /\ pc' # "handle") => (nread' = nread /\ line' = line)]_vars

\* the second line is handled with a collaborator call after the first line
\* was handled with one, each answered in turn
C20_Witness ==
    /\ pc = "handled"
    /\ nread = 2
    /\ nout = 2
    /\ reviewed
    /\ last.tool.name = "finalize"
    /\ last.called
    /\ out[1].id.json = RawId(line)

\* ---------------------------------------------------------------------
\* One run of the server to the end of its input (specification SpecRun):
\* the steps of run() without a restart.  The loop is a single task that is
\* always scheduled, read_line returns (a line or the end of the finite
\* input) and every call that is awaited returns, so the run does not stay
\* for ever at the top of the loop, in front of handle_request or at the
\* end of the loop body.  Every step of NextRun changes pc and one is
\* possible at each of these three positions, so Advance is enabled exactly
\* where NextRun is and the steps of NextRun are its steps.
\* ---------------------------------------------------------------------
NextRun == SkipBlank \/ ReadLine \/ Eof \/ Handle \/ Loop

Advance ==
    /\ pc \in {"read", "handle", "handled"}
    /\ pc' \in {"read", "handle", "handled", "done", "crashed"} \ {pc}

SpecRun == Init /\ [][NextRun]_vars /\ WF_pc(Advance)

\* C21: on a finite input and with a collaborator that always returns, the
\* server eventually reads the end of the stream and returns Ok(()).
C21_TerminatesSuccessfully == <>(pc = "done")

\* every run comes to an end, by Ok(()) or by a panic
RunEnds == <>(pc \in {"done", "crashed"})

\* C22: in peer_review the collaborator is called before the migration and
\* the write, and the write comes last.  A call that changes the workspace
\* has called the collaborator; a call whose collaborator failed fails and
\* leaves every file of the workspace as it was; after a successful call the
\* review file holds the review of the collaborator, whatever the migration
\* moved to that name.
C22_CollaboratorThenMigrationThenWrite ==
    (pc \in {"handled", "crashed"} /\ CallsOn(line, MCP.peer_review)) =>
        /\ (ws # last.before) => last.called
        /\ (last.tool.err = PR.llm_peer_review) =>
               (~last.tool.ok /\ last.called /\ ws = last.before)
        /\ last.tool.ok =>
               /\ ReviewNameOf(line) \in DOMAIN ws[Given.capital]
               /\ ws[Given.capital][ReviewNameOf(line)].text.k = "review_md"
               /\ ws[Given.capital][ReviewNameOf(line)].text.review \in
                      {r.text : r \in {r \in LlmResults : r.ok}}

\* the collaborator failed on a workspace with legacy review files, which
\* are all still there
C22_Witness ==
    /\ LineHandled
    /\ CallsOn(line, MCP.peer_review)
    /\ last.called
    /\ last.tool.err = PR.llm_peer_review
    /\ LegacyToMigrate(ws[Given.capital]) # {}
    /\ ws = last.before

\* ---------------------------------------------------------------------
\* handle_peer_review called with every engine argument of a bounded
\* length, on a workspace that holds Stage1 answers only (specification
\* SpecEngine)
\* ---------------------------------------------------------------------
\* the engine argument: absent, not a string, or a string; gpt-answer is
\* an engine whose name ends like the name of a Stage1 answer file
EngineArgs ==
    LET EngineChars == {"a", "Z", "7", "_", "-", " ", "/", "e-acute"}
    IN  {JMissing, JNum(7), JStr(Given.gpt \o PR.dash_answer)}
        \cup {JStr(e) : e \in UNION {[1..n -> EngineChars] : n \in 0..MaxEngineLen}}

EngineParams(engine) ==
    IF engine = JMissing THEN JObj(Fields1("title", JStr(Given.capital)))
    ELSE JObj(Fields2("title", JStr(Given.capital), "engine", engine))

\* the collaborator answers and the write succeeds
EngineEnv(tool, dir) ==
    CHOOSE env \in (IF tool = "peer_review" THEN PeerReviewEnvs(dir) ELSE FinalizeEnvs(dir)) :
        /\ env.llm = [ok |-> TRUE, text |-> Plain(Given.ok)]
        /\ env.write = "ok"
        /\ env.rename = "rename"

\* peer_review is called on Stage1 answers alone, finalize on Stage1 answers
\* with reviews beside them
InitEngine ==
    /\ pc = "fn"
    /\ line = Plain(<<>>)
    /\ nread = 0
    /\ out = <<>>
    /\ nout = 0
    /\ \E tool \in {"peer_review", "finalize"} : \E e \in EngineArgs :
        /\ ws = Workspaces(IF tool = "peer_review" THEN Stage1Dir ELSE LegacyDir)
        /\ fn = [name |-> "engine", tool |-> tool, done |-> FALSE, engine |-> e, ok |-> FALSE,
                 ran |-> <<>>, written |-> {}]
    /\ ws0 = ws
    /\ reviewed = FALSE
    /\ last = NoLast

ApplyEngine ==
    /\ fn.name = "engine"
    /\ ~fn.done
    /\ \E env \in {EngineEnv(fn.tool, ws[Given.capital])} :
       \E o \in {IF fn.tool = "peer_review"
                  THEN HandlePeerReview(EngineParams(fn.engine), ws, env)
                  ELSE HandleFinalize(EngineParams(fn.engine), ws, env)} :
        /\ ws' = o.ws
        /\ fn' = [fn EXCEPT !.done = TRUE, !.ok = o.ok,
                            !.ran = IF o.ok THEN o.payload.engine ELSE <<>>,
                            !.written = DOMAIN o.ws[Given.capital] \ DOMAIN ws[Given.capital]]
    /\ UNCHANGED <<pc, line, nread, out, nout, ws0, reviewed, last>>

NextEngine == ApplyEngine

SpecEngine == InitEngine /\ [][NextEngine]_vars

\* the characters of [A-Za-z0-9_-] among those tried and those of "claude"
\* and "gpt-answer"
SafeChars ==
    {"a", "Z", "7", "_", "-", "c", "l", "u", "d", "e", "g", "p", "t", "n", "s", "w", "r"}
\* the engine argument trimmed, empty when it is absent or not a string
TrimmedEngine(e) == IF e.t = "str" THEN Trim(e.s) ELSE <<>>

\* C23: an engine that is absent, empty or blank runs "claude"; the file
\* written is peer-review-by-<token>.md, the token being the trimmed engine
\* with every character outside [A-Za-z0-9_-] replaced by '-', leading and
\* trailing '-' kept, or "claude" when that consists of '-' only; the token
\* is never empty and has only characters of [A-Za-z0-9_-].
C23_EngineToken ==
    (fn.name = "engine" /\ fn.tool = "peer_review" /\ fn.done) =>
        LET run == IF TrimmedEngine(fn.engine) = <<>> THEN PR.claude
                   ELSE TrimmedEngine(fn.engine)
            replaced == [i \in 1..Len(run) |-> IF run[i] \in SafeChars THEN run[i] ELSE "-"]
            token == IF \A i \in 1..Len(replaced) : replaced[i] = "-" THEN PR.claude
                     ELSE replaced
        IN  /\ fn.ok
            /\ fn.ran = run
            /\ fn.written = {PR.peer_review_by \o token \o PR.md}
            /\ token # <<>>
            /\ \A i \in 1..Len(token) : token[i] \in SafeChars

\* the engine " /a" is run as "/a" and its review is written to
\* peer-review-by--a.md
C23_Witness ==
    /\ fn.name = "engine"
    /\ fn.tool = "peer_review"
    /\ fn.done
    /\ fn.engine = JStr(<<" ", "/", "a">>)
    /\ fn.ran = <<"/", "a">>
    /\ fn.written = {PR.peer_review_by \o <<"-", "a">> \o PR.md}

\* ---------------------------------------------------------------------
\* preview_text (the same function in both tools) on its own
\* (specification SpecPreview): texts of one-byte characters "a" with
\* two-byte characters at some positions, around the two limits
\* ---------------------------------------------------------------------
PreviewLens == {0, 1, 100, 150, 199, 200, 201, 250, 299, 300, 301}
PreviewInputs ==
    {[name |-> "preview", done |-> FALSE, max_len |-> m,
      text |-> Plain([i \in 1..n |-> IF i \in wide THEN "e-acute" ELSE "a"]),
      result |-> [panic |-> FALSE, text |-> Plain(<<>>)]] :
        m \in {200, 300}, n \in PreviewLens,
        wide \in {{}, {1}, {200}, {300}, 1..301, 101..301}}

InitPreview ==
    /\ pc = "fn"
    /\ line = Plain(<<>>)
    /\ nread = 0
    /\ out = <<>>
    /\ nout = 0
    /\ ws = Workspaces(EmptyDir)
    /\ ws0 = ws
    /\ reviewed = FALSE
    /\ last = NoLast
    /\ fn \in PreviewInputs

ApplyPreview ==
    /\ fn.name = "preview"
    /\ ~fn.done
    /\ fn' = [fn EXCEPT !.done = TRUE, !.result = PreviewText(fn.text, fn.max_len)]
    /\ UNCHANGED <<pc, line, nread, out, nout, ws, ws0, reviewed, last>>

NextPreview == ApplyPreview

SpecPreview == InitPreview /\ [][NextPreview]_vars

\* C24: the preview is the whole text when it has at most 200 (300)
\* characters, otherwise its first 200 (300) characters followed by "...",
\* and computing it never fails.
C24_PreviewByCharacters ==
    (fn.name = "preview" /\ fn.done) =>
        /\ ~fn.result.panic
        /\ fn.result.text =
               IF Len(fn.text.s) <= fn.max_len THEN fn.text
               ELSE Plain(SubSeq(fn.text.s, 1, fn.max_len) \o PR.ellipsis)

\* the Stage1 answers a call recognises in a directory: the files its
\* filter keeps, with their contents
Stage1Answers(dir) == [n \in Stage1Names(dir) |-> dir[n]]

\* C25: no peer_review or finalize call changes the Stage1 answers of the
\* workspace: the files recognised as Stage1 answers and their contents are
\* those that were there before the first call.
C25_Stage1AnswersUnchanged ==
    Stage1Answers(ws[Given.capital]) = Stage1Answers(ws0[Given.capital])

\* ---------------------------------------------------------------------
\* Two server processes in handle_peer_review on the same workspace, each
\* from the return of its collaborator to its own return (specification
\* SpecRace).  The steps are the file system calls of peer_review.rs:196-233,
\* one at a time: exists, rename, read_to_string, write, read_dir.
\* ---------------------------------------------------------------------
RaceProcs == {1, 2}
RaceEngine(p) == IF p = 1 THEN Given.gemini ELSE PR.claude
RaceReviewName(p) == ReviewFileName(EngineForFile(RaceEngine(p)))
RaceMarkdown(p) ==
    BuildReviewMarkdown(Given.capital, RaceEngine(p), Plain(Given.query), 1, Plain(Given.ok))

\* the review files and legacy files that may be there when the calls start
RaceNames ==
    {PR.peer_review_md, Given.peer_review_gemini_md, RaceReviewName(1), RaceReviewName(2)}
RaceDirs ==
    {[n \in present \cup {Given.claude_answer_md} |-> File(Plain(n))] :
        present \in SUBSET RaceNames}

RaceProc == [pc |-> "bare_check", todo |-> {}, from |-> <<>>, to |-> <<>>,
             held |-> Plain(<<>>)]

InitRace ==
    /\ pc = "fn"
    /\ line = Plain(<<>>)
    /\ nread = 0
    /\ out = <<>>
    /\ nout = 0
    /\ \E dir \in RaceDirs : ws = Workspaces(dir)
    /\ ws0 = ws
    /\ reviewed = FALSE
    /\ last = NoLast
    /\ fn = [name |-> "race", procs |-> [p \in RaceProcs |-> RaceProc]]

RaceUnchanged == UNCHANGED <<pc, line, nread, out, nout, ws0, reviewed, last>>
RaceSet(p, proc) == fn' = [fn EXCEPT !.procs[p] = proc]
RaceDir == ws[Given.capital]

\* legacy_review_md.exists() && !review_md_path.exists()
RaceBareCheck(p) ==
    /\ fn.procs[p].pc = "bare_check"
    /\ RaceSet(p, IF PR.peer_review_md \in DOMAIN RaceDir /\ RaceReviewName(p) \notin DOMAIN RaceDir
                  THEN [fn.procs[p] EXCEPT !.pc = "bare_rename", !.from = PR.peer_review_md,
                                           !.to = RaceReviewName(p)]
                  ELSE [fn.procs[p] EXCEPT !.pc = "list"])
    /\ UNCHANGED ws
    /\ RaceUnchanged

\* fs::rename(from, to), and on its failure read_to_string(from): the rename
\* fails when the source is gone, and may fail for another reason
RaceRename(p) ==
    LET proc == fn.procs[p]
        back == IF proc.pc = "bare_rename" THEN "list" ELSE "loop"
    IN  /\ proc.pc \in {"bare_rename", "loop_rename"}
        /\ \E how \in (IF proc.from \in DOMAIN RaceDir THEN RenameOutcomes ELSE {"fail"}) :
            IF how = "rename"
            THEN /\ ws' = [ws EXCEPT ![Given.capital] =
                              RenameOrCopy(RaceDir, proc.from, proc.to, "rename")]
                 /\ RaceSet(p, [proc EXCEPT !.pc = back])
            ELSE IF how = "copy" /\ RaceDir[proc.from].readable
            THEN /\ UNCHANGED ws
                 /\ RaceSet(p, [proc EXCEPT !.pc = IF back = "list" THEN "bare_write"
                                                   ELSE "loop_write",
                                            !.held = RaceDir[proc.from].text])
            ELSE /\ UNCHANGED ws
                 /\ RaceSet(p, [proc EXCEPT !.pc = back])
        /\ RaceUnchanged

\* fs::write(to, legacy_content) of the fallback
RaceCopyWrite(p) ==
    LET proc == fn.procs[p]
    IN  /\ proc.pc \in {"bare_write", "loop_write"}
        /\ ws' = [ws EXCEPT ![Given.capital] = WriteFile(RaceDir, proc.to, proc.held)]
        /\ RaceSet(p, [proc EXCEPT !.pc = IF proc.pc = "bare_write" THEN "list" ELSE "loop",
                                   !.held = Plain(<<>>)])
        /\ RaceUnchanged

\* fs::read_dir(&base_dir): the entries there are at that moment
RaceList(p) ==
    /\ fn.procs[p].pc = "list"
    /\ RaceSet(p, [fn.procs[p] EXCEPT !.pc = "loop", !.todo = DOMAIN RaceDir])
    /\ UNCHANGED ws
    /\ RaceUnchanged

\* one turn of the loop over the entries, up to !new_path.exists(); after
\* the last entry the loop is left
RaceLoop(p) ==
    LET proc == fn.procs[p]
    IN  /\ proc.pc = "loop"
        /\ IF proc.todo = {} THEN RaceSet(p, [proc EXCEPT !.pc = "write"])
           ELSE \E n \in proc.todo :
                   RaceSet(p, IF /\ IsLegacyName(n)
                                 /\ EnginePart(n) # <<>>
                                 /\ ReviewFileName(EnginePart(n)) \notin DOMAIN RaceDir
                              THEN [proc EXCEPT !.pc = "loop_rename", !.todo = proc.todo \ {n},
                                                !.from = n, !.to = ReviewFileName(EnginePart(n))]
                              ELSE [proc EXCEPT !.todo = proc.todo \ {n}])
        /\ UNCHANGED ws
        /\ RaceUnchanged

\* fs::write(&review_md_path, &markdown), then Ok(payload)
RaceWrite(p) ==
    /\ fn.procs[p].pc = "write"
    /\ ws' = [ws EXCEPT ![Given.capital] = WriteFile(RaceDir, RaceReviewName(p), RaceMarkdown(p))]
    /\ RaceSet(p, [fn.procs[p] EXCEPT !.pc = "done"])
    /\ RaceUnchanged

NextRace ==
    \E p \in RaceProcs :
        \/ RaceBareCheck(p)
        \/ RaceRename(p)
        \/ RaceCopyWrite(p)
        \/ RaceList(p)
        \/ RaceLoop(p)
        \/ RaceWrite(p)

SpecRace == InitRace /\ [][NextRace]_vars

\* C26: once both calls have returned success, the review file of each
\* engine holds the markdown its own call returned.
C26_EachReviewSurvives ==
    (fn.name = "race" /\ \A p \in RaceProcs : fn.procs[p].pc = "done") =>
        \A p \in RaceProcs :
            /\ RaceReviewName(p) \in DOMAIN RaceDir
            /\ RaceDir[RaceReviewName(p)] = File(RaceMarkdown(p))

\* ---------------------------------------------------------------------
\* handle_request on the same tools/call message sent twice from the same
\* workspace and with the same environment, once as a notification and once
\* as a true request (specification SpecPair)
\* ---------------------------------------------------------------------
NoHandled == [ret |-> "none", ws |-> Workspaces(EmptyDir), called |-> FALSE, tool |-> NoTool]
PairInputs ==
    {[name |-> "pair", done |-> FALSE, params |-> p, nid |-> n, rid |-> r,
      notification |-> NoHandled, request |-> NoHandled] :
        p \in CoreParams \cup MoreParams,
        n \in {JMissing, JNull, JBool, JArr},
        r \in {JStr(<<"a">>), JNum(1)}}

InitPair ==
    /\ pc = "fn"
    /\ line = Plain(<<>>)
    /\ nread = 0
    /\ out = <<>>
    /\ nout = 0
    /\ \E dir \in InitDirs : ws = Workspaces(dir)
    /\ ws0 = ws
    /\ reviewed = FALSE
    /\ last = NoLast
    /\ fn \in PairInputs

ApplyPair ==
    /\ fn.name = "pair"
    /\ ~fn.done
    /\ \E sent \in {[n |-> JsonText(RequestJson(fn.nid, MCP.tools_call, fn.params)),
                     r |-> JsonText(RequestJson(fn.rid, MCP.tools_call, fn.params))]} :
       \E env \in Envs(sent.r, ws) :
       \E hn \in {HandleRequest(sent.n, ws, env)} :
       \E hr \in {HandleRequest(sent.r, ws, env)} :
           fn' = [fn EXCEPT !.done = TRUE,
                            !.notification = [ret |-> hn.ret, ws |-> hn.ws,
                                              called |-> hn.called, tool |-> hn.tool],
                            !.request = [ret |-> hr.ret, ws |-> hr.ws,
                                         called |-> hr.called, tool |-> hr.tool]]
    /\ UNCHANGED <<pc, line, nread, out, nout, ws, ws0, reviewed, last>>

NextPair == ApplyPair

SpecPair == InitPair /\ [][NextPair]_vars

\* C27: a tools/call message sent as a notification runs the tool as the
\* same message sent as a true request does: the same handler outcome, the
\* same collaborator call and the same workspace afterwards; only the
\* notification gets no response.
C27_NotificationRunsTheTool ==
    (fn.name = "pair" /\ fn.done) =>
        /\ fn.notification.ws = fn.request.ws
        /\ fn.notification.called = fn.request.called
        /\ fn.notification.tool = fn.request.tool
        /\ fn.notification.ret # "some"
        /\ (fn.notification.ret = "panic") <=> (fn.request.ret = "panic")
        /\ (fn.notification.ret = "err") <=> (fn.request.ret = "err")

\* a peer_review call that writes its review, sent both ways
C27_Witness ==
    /\ fn.name = "pair"
    /\ fn.done
    /\ fn.notification.tool.name = "peer_review"
    /\ fn.notification.tool.ok
    /\ fn.notification.called
    /\ fn.notification.ws # ws
    /\ fn.notification.ret = "none"
    /\ fn.request.ret = "some"

====
